---------------------------- MODULE Spec2Model ----------------------------
(***************************************************************************)
(* The two-stage strategy decision engine of the options-trading system:   *)
(* RiskManager, the rule-based strategy selector, the label-creation step  *)
(* that consumes it, ParameterGenerator and the orchestrator step that     *)
(* attaches the risk validation.                                           *)
(*                                                                         *)
(* Number representation (the program computes on floats; the model on     *)
(* exact integers):                                                        *)
(*   - iv_rank, adx_14, rsi_14 are counted in units of 1/Res, so that a    *)
(*     source threshold t is U(t) == Res * t;                              *)
(*   - price_vs_sma_20 is counted in thousandths (0.005 is 5);             *)
(*   - risk_per_trade is counted in percent (0.02 is 2) and                *)
(*     max_risk_amount = account_size * risk_per_trade in hundredths of a  *)
(*     dollar;                                                             *)
(*   - bid, ask and every per-share amount are in cents, so that the       *)
(*     per-contract dollar amount  price * 100  is the same integer;       *)
(*     strikes are in dollars, breakevens (strike +- per-share amount) in  *)
(*     cents;                                                              *)
(*   - delta is counted in hundredths (0.50 is 50).                        *)
(***************************************************************************)
EXTENDS Integers, Sequences, FiniteSets, TLC

VARIABLES
    rm,            \* the RiskManager instance (per-caller configuration)
    option_chain,  \* the option chain handed to ParameterGenerator.generate
    features,      \* the market feature snapshot (a dict: keys may be absent)
    call,          \* the operation last invoked, with its arguments
    result,        \* what that operation returned or raised
    history,       \* the calls completed so far (a log), oldest first
    procs,         \* the generate calls in flight, one record per caller
    ml_model,      \* the loaded classifier: its label table and its answer
    training_data, \* the 'strategy' column of the labelled training data
    loader         \* the ModelLoader instance and the source it reads

vars ==
    <<rm, option_chain, features, call, result, history, procs,
      ml_model, training_data, loader>>

(***************************************************************************)
(* Bounds of the model.                                                    *)
(***************************************************************************)
Res == 2
MaxLossSteps == 14
MaxProfitSteps == 9
MaxChain == 3
MaxHistory == 3
MaxProcs == 2
MaxClasses == 4
ProbSteps == 4
MaxLabelCount == 6

Abs(x) == IF x < 0 THEN -x ELSE x
Max2_left(a, b) == a

Max2(a, b) == IF a >= b THEN a ELSE b
Min2(a, b) == IF a <= b THEN a ELSE b
U(t) == Res * t

NoCall == [op |-> "none"]
NoResult == [kind |-> "none"]
\* No classifier loaded; no ModelLoader constructed.
NoModel == [classes |-> <<>>, probabilities |-> <<>>, prediction |-> 0]
NoLoader == [kind |-> "none"]

(***************************************************************************)
(* Feature snapshots: a Python dict.  present is the set of its keys; the  *)
(* value of an absent key is never read (Get returns the default).         *)
(***************************************************************************)
FeatureKeys == {"iv_rank", "adx_14", "trend_regime", "rsi_14", "price_vs_sma_20"}

Get(f, k, default) == IF k \in f.present THEN f.val[k] ELSE default

Snapshot(present, iv, adx, tr, rsi, pvs) ==
    [present |-> present,
     val |-> [iv_rank |-> IF "iv_rank" \in present THEN iv ELSE 0,
              adx_14 |-> IF "adx_14" \in present THEN adx ELSE 0,
              trend_regime |-> IF "trend_regime" \in present THEN tr ELSE 0,
              rsi_14 |-> IF "rsi_14" \in present THEN rsi ELSE 0,
              price_vs_sma_20 |-> IF "price_vs_sma_20" \in present THEN pvs ELSE 0]]

EmptySnapshot == Snapshot({}, 0, 0, 0, 0, 0)

(***************************************************************************)
(* RiskManager                                                             *)
(***************************************************************************)
DefaultAccountSize == 10000
DefaultRiskPerTrade == 2
DefaultMaxContracts == 10

RiskManagerInit(account_size, risk_per_trade, max_contracts) ==
    [account_size |-> account_size,
     risk_per_trade |-> risk_per_trade,
     max_contracts |-> max_contracts,
     max_risk_amount |-> account_size * risk_per_trade]

DefaultRiskManager ==
    RiskManagerInit(DefaultAccountSize, DefaultRiskPerTrade, DefaultMaxContracts)

\* int(x / y) of Python for y > 0: the quotient truncated toward zero.
IntDiv(x, y) == IF x >= 0 THEN x \div y ELSE -((-x) \div y)

calculate_position_size_noclamp(r, max_loss_per_contract) ==
    IF max_loss_per_contract <= 0
    THEN 1
    ELSE IntDiv(r.max_risk_amount, 100 * max_loss_per_contract)

calculate_position_size_ceil(r, max_loss_per_contract) ==
    IF max_loss_per_contract <= 0
    THEN 1
    ELSE LET contracts == (r.max_risk_amount + 100 * max_loss_per_contract - 1)
                              \div (100 * max_loss_per_contract)
         IN  Max2(1, Min2(contracts, r.max_contracts))

calculate_position_size(r, max_loss_per_contract) ==
    IF max_loss_per_contract <= 0
    THEN 1
    ELSE LET contracts == IntDiv(r.max_risk_amount, 100 * max_loss_per_contract)
         IN  Max2(1, Min2(contracts, r.max_contracts))

\* A ratio num/den, den > 0, kept exact.
Ratio(num, den) == [num |-> num, den |-> den]
RatioGt(a, b) == a.num * b.den > b.num * a.den
RatioLe(a, b) == a.num * b.den <= b.num * a.den

validate_trade_ge(r, max_loss, max_profit) ==
    LET risk_reward_ratio ==
            IF max_loss # 0 THEN Ratio(max_profit, Abs(max_loss)) ELSE Ratio(0, 1)
        risk_pct == Ratio(Abs(max_loss), r.account_size)
    IN  [approved |-> RatioLe(risk_pct, Ratio(r.risk_per_trade, 100))
                        /\ ~RatioGt(Ratio(1, 2), risk_reward_ratio),
         risk_reward_ratio |-> risk_reward_ratio,
         risk_percentage |-> risk_pct,
         max_risk_amount |-> r.max_risk_amount,
         warnings |-> <<>>]

validate_trade_unguarded(r, max_loss, max_profit) ==
    LET risk_reward_ratio ==
            IF max_loss # 0 THEN Ratio(max_profit, Abs(max_loss))
                            ELSE Ratio(max_profit, 1)
        risk_pct == Ratio(Abs(max_loss), r.account_size)
    IN  [approved |-> RatioLe(risk_pct, Ratio(r.risk_per_trade, 100))
                        /\ RatioGt(risk_reward_ratio, Ratio(1, 2)),
         risk_reward_ratio |-> risk_reward_ratio,
         risk_percentage |-> risk_pct,
         max_risk_amount |-> r.max_risk_amount,
         warnings |-> <<>>]

validate_trade(r, max_loss, max_profit) ==
    LET risk_reward_ratio ==
            IF max_loss # 0 THEN Ratio(max_profit, Abs(max_loss)) ELSE Ratio(0, 1)
        risk_pct == Ratio(Abs(max_loss), r.account_size)
    IN  [approved |-> RatioLe(risk_pct, Ratio(r.risk_per_trade, 100))
                        /\ RatioGt(risk_reward_ratio, Ratio(1, 2)),
         risk_reward_ratio |-> risk_reward_ratio,
         risk_percentage |-> risk_pct,
         max_risk_amount |-> r.max_risk_amount,
         warnings |-> <<>>]

AccountSizes == {1000, 10000}
RiskPercents == {1, 2, 5, 100}
MaxContractsValues == {1, 3, 10}
LossValues == {25 * k : k \in (-MaxLossSteps)..MaxLossSteps}
ProfitValues == {25 * k : k \in (-1)..MaxProfitSteps}

RiskManagers ==
    {RiskManagerInit(a, p, c) : a \in AccountSizes, p \in RiskPercents,
                                c \in MaxContractsValues}

CalculatePositionSize ==
    /\ \E m \in LossValues :
          /\ call' = [op |-> "calculate_position_size", max_loss_per_contract |-> m]
          /\ result' = [kind |-> "contracts", value |-> calculate_position_size(rm, m)]
    /\ UNCHANGED <<rm, option_chain, features, history, procs, ml_model, training_data, loader>>

ValidateTrade ==
    /\ \E max_loss \in LossValues, max_profit \in ProfitValues :
          /\ call' = [op |-> "validate_trade", max_loss |-> max_loss,
                      max_profit |-> max_profit]
          /\ result' = [kind |-> "validation",
                        value |-> validate_trade(rm, max_loss, max_profit)]
    /\ UNCHANGED <<rm, option_chain, features, history, procs, ml_model, training_data, loader>>

\* A builder's sizing followed by the orchestrator's validation: the
\* per-contract amounts are multiplied by the contracts sized and the totals
\* are validated.
SizeAndValidate ==
    /\ \E max_loss \in LossValues, max_profit \in ProfitValues :
          LET contracts == calculate_position_size(rm, max_loss)
              total_max_loss == max_loss * contracts
              total_max_profit == max_profit * contracts
          IN  /\ call' = [op |-> "size_and_validate", max_loss |-> max_loss,
                          max_profit |-> max_profit]
              /\ result' = [kind |-> "sized_validation",
                            contracts |-> contracts,
                            total_max_loss |-> total_max_loss,
                            total_max_profit |-> total_max_profit,
                            value |-> validate_trade(rm, Abs(total_max_loss),
                                                     total_max_profit)]
    /\ UNCHANGED <<rm, option_chain, features, history, procs, ml_model, training_data, loader>>

InitRisk ==
    /\ rm \in RiskManagers
    /\ option_chain = <<>>
    /\ features = EmptySnapshot
    /\ call = NoCall
    /\ result = NoResult
    /\ history = <<>>
    /\ procs = <<>>
    /\ ml_model = NoModel
    /\ training_data = <<>>
    /\ loader = NoLoader

NextRisk == CalculatePositionSize \/ ValidateTrade \/ SizeAndValidate

SpecRisk == InitRisk /\ [][NextRisk]_vars

(***************************************************************************)
(* Strategy rule engine (strategy_selector.py)                             *)
(***************************************************************************)
Strategies ==
    {"IRON_CONDOR", "IRON_BUTTERFLY", "LONG_CALL", "LONG_PUT",
     "BULL_CALL_SPREAD", "BEAR_PUT_SPREAD", "LONG_STRADDLE", "LONG_STRANGLE",
     "CALENDAR_SPREAD", "DIAGONAL_SPREAD"}

\* Python's None, as a label.
None == "None"

FinalFallbackNoDefault(iv_rank, adx, rsi) ==
    IF iv_rank > U(55)
    THEN "IRON_CONDOR"
    ELSE IF iv_rank < U(35)
         THEN IF rsi >= U(50) THEN "LONG_CALL" ELSE "LONG_PUT"
         ELSE IF rsi > U(58) /\ adx > U(18)
              THEN "BULL_CALL_SPREAD"
              ELSE IF rsi < U(42) /\ adx > U(18)
                   THEN "BEAR_PUT_SPREAD"
                   ELSE None

FinalFallbackSpreadsFirst(iv_rank, adx, rsi) ==
    IF rsi > U(58) /\ adx > U(18)
    THEN "BULL_CALL_SPREAD"
    ELSE IF rsi < U(42) /\ adx > U(18)
         THEN "BEAR_PUT_SPREAD"
         ELSE IF iv_rank > U(55)
              THEN "IRON_CONDOR"
              ELSE IF iv_rank < U(35)
                   THEN IF rsi >= U(50) THEN "LONG_CALL" ELSE "LONG_PUT"
                   ELSE "IRON_CONDOR"

FinalFallbackCalendarDefault(iv_rank, adx, rsi) ==
    IF iv_rank > U(55)
    THEN "IRON_CONDOR"
    ELSE IF iv_rank < U(35)
         THEN IF rsi >= U(50) THEN "LONG_CALL" ELSE "LONG_PUT"
         ELSE IF rsi > U(58) /\ adx > U(18)
              THEN "BULL_CALL_SPREAD"
              ELSE IF rsi < U(42) /\ adx > U(18)
                   THEN "BEAR_PUT_SPREAD"
                   ELSE "CALENDAR_SPREAD"

FinalFallback(iv_rank, adx, rsi) ==
    IF iv_rank > U(55)
    THEN "IRON_CONDOR"
    ELSE IF iv_rank < U(35)
         THEN IF rsi >= U(50) THEN "LONG_CALL" ELSE "LONG_PUT"
         ELSE IF rsi > U(58) /\ adx > U(18)
              THEN "BULL_CALL_SPREAD"
              ELSE IF rsi < U(42) /\ adx > U(18)
                   THEN "BEAR_PUT_SPREAD"
                   ELSE "IRON_CONDOR"

LongPutPath_first_only(adx, trend_regime, rsi, price_vs_sma) ==
    adx > U(20) /\ (trend_regime <= 1 \/ rsi < U(42) \/ price_vs_sma < -25)

select_strategy_from_features_stateful(f) ==
    IF result.kind = "label" /\ result.value = "IRON_CONDOR"
    THEN "LONG_CALL"
    ELSE "IRON_CONDOR"

LongCallRule_rsi_60(iv_rank, adx, trend_regime, rsi) ==
    (iv_rank < U(46) /\ adx > U(21)) /\ (trend_regime >= 3 /\ rsi > U(60))

\* RULE 4 (Long Call): the outer and the nested condition.
LongCallRule(iv_rank, adx, trend_regime, rsi) ==
    (iv_rank < U(46) /\ adx > U(21)) /\ (trend_regime >= 3 /\ rsi > U(54))

\* RULE 5 (Long Put): the three qualifying paths, an if / elif / elif.
LongPutPath(adx, trend_regime, rsi, price_vs_sma) ==
    IF adx > U(20) /\ (trend_regime <= 1 \/ rsi < U(42) \/ price_vs_sma < -25)
    THEN TRUE
    ELSE IF adx >= U(15) /\ (rsi < U(38) \/ price_vs_sma < -35)
         THEN TRUE
         ELSE rsi < U(33)

select_strategy_from_features(f) ==
    LET iv_rank == Get(f, "iv_rank", U(50))
        adx == Get(f, "adx_14", U(20))
        trend_regime == Get(f, "trend_regime", 2)
        rsi == Get(f, "rsi_14", U(50))
        price_vs_sma == Get(f, "price_vs_sma_20", 0)
    IN  IF /\ U(45) < iv_rank /\ iv_rank < U(60)
           /\ trend_regime = 2
           /\ 5 < Abs(price_vs_sma) /\ Abs(price_vs_sma) < 12
           /\ adx < U(15)
        THEN "DIAGONAL_SPREAD"
        ELSE IF /\ U(52) < iv_rank /\ iv_rank < U(75)
                /\ adx < U(25)
                /\ U(45) < rsi /\ rsi < U(55)
        THEN "IRON_CONDOR"
        ELSE IF iv_rank > U(68) /\ adx < U(20)
        THEN "IRON_BUTTERFLY"
        ELSE IF LongCallRule(iv_rank, adx, trend_regime, rsi)
        THEN "LONG_CALL"
        ELSE IF iv_rank < U(48) /\ LongPutPath(adx, trend_regime, rsi, price_vs_sma)
        THEN "LONG_PUT"
        ELSE IF /\ U(56) <= iv_rank /\ iv_rank <= U(63)
                /\ trend_regime >= 3 /\ adx > U(26) /\ rsi > U(62)
        THEN "BULL_CALL_SPREAD"
        ELSE IF /\ U(54) <= iv_rank /\ iv_rank <= U(65)
                /\ trend_regime <= 1 /\ adx > U(22) /\ rsi < U(45)
        THEN "BEAR_PUT_SPREAD"
        ELSE IF (iv_rank < U(35) /\ U(45) < rsi /\ rsi < U(58)) /\ adx < U(17)
        THEN "LONG_STRADDLE"
        ELSE IF (iv_rank < U(36) /\ U(44) < rsi /\ rsi < U(59)) /\ adx < U(25)
        THEN "LONG_STRANGLE"
        ELSE IF /\ iv_rank < U(42) /\ adx < U(20)
                /\ U(42) < rsi /\ rsi < U(58)
                /\ Abs(price_vs_sma) < 22
        THEN "CALENDAR_SPREAD"
        ELSE FinalFallback(iv_rank, adx, rsi)

\* One iteration of the labelling loop of create_labels: which branch the
\* selected strategy takes.
create_labels_step(f) ==
    LET strategy == select_strategy_from_features(f)
    IN  IF strategy = None
        THEN [strategy |-> strategy, branch |-> "skip_no_strategy"]
        ELSE IF strategy = "IRON_CONDOR"
        THEN [strategy |-> strategy, branch |-> "generate_iron_condor_params"]
        ELSE IF strategy = "IRON_BUTTERFLY"
        THEN [strategy |-> strategy, branch |-> "generate_iron_butterfly_params"]
        ELSE IF strategy \in {"BULL_CALL_SPREAD", "BEAR_PUT_SPREAD"}
        THEN [strategy |-> strategy, branch |-> "generate_spread_params"]
        ELSE IF strategy \in {"LONG_CALL", "LONG_PUT"}
        THEN [strategy |-> strategy, branch |-> "generate_long_option_params"]
        ELSE IF strategy = "LONG_STRADDLE"
        THEN [strategy |-> strategy, branch |-> "generate_straddle_params"]
        ELSE IF strategy = "LONG_STRANGLE"
        THEN [strategy |-> strategy, branch |-> "generate_strangle_params"]
        ELSE IF strategy = "CALENDAR_SPREAD"
        THEN [strategy |-> strategy, branch |-> "generate_calendar_spread_params"]
        ELSE IF strategy = "DIAGONAL_SPREAD"
        THEN [strategy |-> strategy, branch |-> "generate_diagonal_spread_params"]
        ELSE [strategy |-> strategy, branch |-> "skip_unknown_strategy"]

\* The snapshots the selector is run on: every threshold of the cascade, a
\* value between it and the next threshold (1/Res above it), and the low end
\* of the range.
Points(ts) == {0} \cup {U(t) : t \in ts} \cup {U(t) + 1 : t \in ts}
IvRankValues ==
    Points({35, 36, 42, 45, 46, 48, 52, 54, 55, 56, 60, 63, 65, 68, 75})
AdxValues == Points({15, 17, 18, 20, 21, 22, 25, 26})
RsiValues == Points({33, 38, 42, 44, 45, 50, 54, 55, 58, 59, 62})
TrendRegimes == 0..4
PriceVsSmaValues ==
    {-36, -35, -30, -25, -23, -22, -17, -12, -8, -5, 0, 5, 8, 12, 17, 22, 23}

SelectStrategy ==
    /\ call' = [op |-> "select_strategy_from_features"]
    /\ result' = [kind |-> "label", value |-> select_strategy_from_features(features)]
    /\ UNCHANGED <<rm, option_chain, features, history, procs, ml_model, training_data, loader>>

CreateLabels ==
    /\ call' = [op |-> "create_labels"]
    /\ result' = [kind |-> "label_step", value |-> create_labels_step(features)]
    /\ UNCHANGED <<rm, option_chain, features, history, procs, ml_model, training_data, loader>>

\* Snapshots that lack one or more of the five keys.
PartialSnapshots ==
    {Snapshot(present, iv, adx, tr, rsi, pvs) :
        present \in (SUBSET FeatureKeys) \ {FeatureKeys},
        iv \in {U(30), U(60)}, adx \in {U(10), U(30)}, tr \in {0, 4},
        rsi \in {U(30), U(70)}, pvs \in {-40, 0}}

\* The two documented scenario snapshots, with every value of the keys a
\* scenario leaves open, those keys being present or absent.
ScenarioSnapshots ==
    {Snapshot(FeatureKeys \ absent, U(60), U(15), tr, U(50), pvs) :
        absent \in SUBSET {"trend_regime", "price_vs_sma_20"},
        tr \in TrendRegimes, pvs \in PriceVsSmaValues}
    \cup
    {Snapshot(FeatureKeys \ absent, U(30), U(25), 4, U(60), pvs) :
        absent \in SUBSET {"price_vs_sma_20"}, pvs \in PriceVsSmaValues}

InitSelector ==
    /\ rm = DefaultRiskManager
    /\ option_chain = <<>>
    /\ \/ \E iv \in IvRankValues, adx \in AdxValues, tr \in TrendRegimes,
             rsi \in RsiValues, pvs \in PriceVsSmaValues :
             features = Snapshot(FeatureKeys, iv, adx, tr, rsi, pvs)
       \/ features \in PartialSnapshots
       \/ features \in ScenarioSnapshots
    /\ call = NoCall
    /\ result = NoResult
    /\ history = <<>>
    /\ procs = <<>>
    /\ ml_model = NoModel
    /\ training_data = <<>>
    /\ loader = NoLoader

NextSelector == SelectStrategy \/ CreateLabels

SpecSelector == InitSelector /\ [][NextSelector]_vars

\* A caller that runs the selector on one snapshot after another.  The
\* function takes the snapshot as its only argument and reads and writes
\* nothing else; each completed call is appended to the log.
HistorySnapshots ==
    {Snapshot(FeatureKeys, U(54), 0, 2, U(50), 0),
     Snapshot(FeatureKeys, U(75), 0, 2, U(50), 0),
     Snapshot(FeatureKeys, 0, U(22), 4, U(55), 0),
     Snapshot(FeatureKeys, 0, 0, 2, 0, 0),
     Snapshot(FeatureKeys, U(36), 0, 2, U(50), 0),
     Snapshot(FeatureKeys, U(52), U(26), 2, U(50), 0),
     EmptySnapshot}

SelectStrategyOn ==
    /\ Len(history) < MaxHistory
    /\ \E f \in HistorySnapshots :
          LET label == select_strategy_from_features(f)
          IN  /\ features' = f
              /\ call' = [op |-> "select_strategy_from_features"]
              /\ result' = [kind |-> "label", value |-> label]
              /\ history' = Append(history, [features |-> f, label |-> label])
    /\ UNCHANGED <<rm, option_chain, procs, ml_model, training_data, loader>>

InitHistory ==
    /\ rm = DefaultRiskManager
    /\ option_chain = <<>>
    /\ features = EmptySnapshot
    /\ call = NoCall
    /\ result = NoResult
    /\ history = <<>>
    /\ procs = <<>>
    /\ ml_model = NoModel
    /\ training_data = <<>>
    /\ loader = NoLoader

NextHistory == SelectStrategyOn

SpecHistory == InitHistory /\ [][NextHistory]_vars


(***************************************************************************)
(* ParameterGenerator (parameter_generator.py)                             *)
(*                                                                         *)
(* A helper that can raise returns Ok(value) or Err(exception); Bind runs  *)
(* the rest of the function on the value and lets an exception escape.     *)
(***************************************************************************)
Ok(v) == [ok |-> TRUE, value |-> v]
Err(e) == [ok |-> FALSE, error |-> e]
Bind(r, F(_)) == IF r.ok THEN F(r.value) ELSE r

\* The exceptions the generator can raise (all are Python ValueError).
UnknownStrategy(strategy) ==
    [exc |-> "ValueError", error |-> "Unknown strategy", strategy |-> strategy]
NoOptionsAvailable(option_type) ==
    [exc |-> "ValueError", error |-> "No options available",
     option_type |-> option_type]
OptionNotFound(option_type, strike, dte) ==
    [exc |-> "ValueError", error |-> "Option not found",
     option_type |-> option_type, strike |-> strike, dte |-> dte]
\* min() of an empty list of expirations.
EmptySequence == [exc |-> "ValueError", error |-> "min() arg is an empty sequence"]

\* max_profit is a float or a str.
Num(n) == [type |-> "float", num |-> n, str |-> ""]
Str(t) == [type |-> "str", num |-> 0, str |-> t]

\* Rows of the chain that pass a boolean mask, in the chain's order.
RowsOfTypeAndDte(chain, option_type, dte) ==
    SelectSeq(chain, LAMBDA c : c.type = option_type /\ c.dte = dte)
RowsOfType(chain, option_type) ==
    SelectSeq(chain, LAMBDA c : c.type = option_type)
RowsOfContract(chain, strike, option_type, dte) ==
    SelectSeq(chain, LAMBDA c : c.strike = strike /\ c.type = option_type
                                  /\ c.dte = dte)

\* DataFrame.nsmallest(1, column), keep='first': the first row holding the
\* least value of the column.
NSmallest1(rows, Key(_)) ==
    rows[CHOOSE i \in 1..Len(rows) :
            \A j \in 1..Len(rows) :
                /\ Key(rows[i]) <= Key(rows[j])
                /\ j < i => Key(rows[j]) > Key(rows[i])]

AvailableDtes(chain) == {chain[i].dte : i \in 1..Len(chain)}

NearestTo_no_key(values, target) == CHOOSE d \in values : \A e \in values : d <= e

\* min(sorted(values), key = |x - target|): the least of the nearest values.
NearestTo(values, target) ==
    CHOOSE d \in values :
        \A e \in values :
            \/ Abs(d - target) < Abs(e - target)
            \/ Abs(d - target) = Abs(e - target) /\ d <= e

_select_optimal_dte(chain, strategy, iv_rank, trend_strength) ==
    LET available_dtes == AvailableDtes(chain)
        target ==
            IF strategy \in {"IRON_CONDOR", "IRON_BUTTERFLY"}
            THEN IF iv_rank > U(70) THEN 7
                 ELSE IF iv_rank > U(50) THEN 14 ELSE 21
            ELSE IF strategy \in {"LONG_CALL", "LONG_PUT"}
            THEN IF iv_rank < U(30) /\ trend_strength = "VERY_STRONG" THEN 45
                 ELSE IF iv_rank < U(40) THEN 30 ELSE 21
            ELSE IF strategy \in {"BULL_CALL_SPREAD", "BEAR_PUT_SPREAD"}
            THEN IF trend_strength = "VERY_STRONG" THEN 30 ELSE 21
            ELSE 30
    IN  IF available_dtes = {}
        THEN Err(EmptySequence)
        ELSE Ok(NearestTo(available_dtes, target))

_classify_trend_strength_no_regime(f) ==
    LET rsi == Get(f, "rsi_14", U(50))
        adx == Get(f, "adx_14", U(20))
    IN  IF adx > U(30) /\ (rsi > U(65) \/ rsi < U(35))
        THEN "VERY_STRONG"
        ELSE IF adx > U(25) /\ (rsi > U(60) \/ rsi < U(40))
        THEN "STRONG"
        ELSE IF adx > U(20)
        THEN "MODERATE"
        ELSE "WEAK"

_classify_trend_strength(f) ==
    LET rsi == Get(f, "rsi_14", U(50))
        adx == Get(f, "adx_14", U(20))
        trend_regime == Get(f, "trend_regime", 2)
    IN  IF adx > U(30) /\ ((rsi > U(65) /\ trend_regime >= 4)
                            \/ (rsi < U(35) /\ trend_regime <= 0))
        THEN "VERY_STRONG"
        ELSE IF adx > U(25) /\ ((rsi > U(60) /\ trend_regime >= 3)
                                 \/ (rsi < U(40) /\ trend_regime <= 1))
        THEN "STRONG"
        ELSE IF adx > U(20)
        THEN "MODERATE"
        ELSE "WEAK"

_find_strike_by_delta_signed(chain, target_delta, option_type, dte) ==
    LET exact == RowsOfTypeAndDte(chain, option_type, dte)
        filtered == IF Len(exact) = 0 THEN RowsOfType(chain, option_type) ELSE exact
    IN  IF Len(filtered) = 0
        THEN Err(NoOptionsAvailable(option_type))
        ELSE Ok(NSmallest1(filtered,
                    LAMBDA c : Abs(c.delta - Abs(target_delta))).strike)

_find_strike_by_delta(chain, target_delta, option_type, dte) ==
    LET exact == RowsOfTypeAndDte(chain, option_type, dte)
        filtered == IF Len(exact) = 0 THEN RowsOfType(chain, option_type) ELSE exact
    IN  IF Len(filtered) = 0
        THEN Err(NoOptionsAvailable(option_type))
        ELSE Ok(NSmallest1(filtered,
                    LAMBDA c : Abs(Abs(c.delta) - Abs(target_delta))).strike)

_find_strike_by_price_no_fallback(chain, target_price, option_type, dte) ==
    LET filtered == RowsOfTypeAndDte(chain, option_type, dte)
    IN  IF Len(filtered) = 0
        THEN Err(NoOptionsAvailable(option_type))
        ELSE Ok(NSmallest1(filtered,
                    LAMBDA c : Abs(c.strike * target_price.den - target_price.num)).strike)

\* target_price is the ratio target.num / target.den of dollars.
_find_strike_by_price(chain, target_price, option_type, dte) ==
    LET exact == RowsOfTypeAndDte(chain, option_type, dte)
        filtered == IF Len(exact) = 0 THEN RowsOfType(chain, option_type) ELSE exact
    IN  IF Len(filtered) = 0
        THEN Err(NoOptionsAvailable(option_type))
        ELSE Ok(NSmallest1(filtered,
                    LAMBDA c : Abs(c.strike * target_price.den - target_price.num)).strike)

_get_option_cost_any_dte(chain, strike, option_type, dte) ==
    LET option == SelectSeq(chain, LAMBDA c : c.strike = strike /\ c.type = option_type)
    IN  IF Len(option) = 0
        THEN Err(OptionNotFound(option_type, strike, dte))
        ELSE Ok(option[1].ask)

_get_option_cost_reads_bid(chain, strike, option_type, dte) ==
    LET option == RowsOfContract(chain, strike, option_type, dte)
    IN  IF Len(option) = 0
        THEN Err(OptionNotFound(option_type, strike, dte))
        ELSE Ok(option[1].bid)

_get_option_cost(chain, strike, option_type, dte) ==
    LET option == RowsOfContract(chain, strike, option_type, dte)
    IN  IF Len(option) = 0
        THEN Err(OptionNotFound(option_type, strike, dte))
        ELSE Ok(option[1].ask)

_get_option_bid_reads_ask(chain, strike, option_type, dte) ==
    LET option == RowsOfContract(chain, strike, option_type, dte)
    IN  IF Len(option) = 0
        THEN Err(OptionNotFound(option_type, strike, dte))
        ELSE Ok(option[1].ask)

_get_option_bid(chain, strike, option_type, dte) ==
    LET option == RowsOfContract(chain, strike, option_type, dte)
    IN  IF Len(option) = 0
        THEN Err(OptionNotFound(option_type, strike, dte))
        ELSE Ok(option[1].bid)


(***************************************************************************)
(* The ten strategy-specific generators.  r is self.risk_manager.  The     *)
(* current_price argument of the source is read by none of them.           *)
(***************************************************************************)
_generate_long_call(r, chain, f) ==
    LET iv_rank == Get(f, "iv_rank", U(50))
        trend_strength == _classify_trend_strength(f)
        target_delta == IF iv_rank < U(30) THEN 50
                        ELSE IF iv_rank < U(40) THEN 40 ELSE 30
    IN  Bind(_select_optimal_dte(chain, "LONG_CALL", iv_rank, trend_strength),
        LAMBDA dte :
        Bind(_find_strike_by_delta(chain, target_delta, "call", dte),
        LAMBDA strike :
        Bind(_get_option_cost(chain, strike, "call", dte),
        LAMBDA cost :
            LET max_loss_per_contract == cost
                contracts == calculate_position_size(r, max_loss_per_contract)
                total_cost == cost * contracts
            IN  Ok([strategy |-> "LONG_CALL",
                    action |-> "BUY",
                    option_type |-> "CALL",
                    strike |-> strike,
                    dte |-> dte,
                    contracts |-> contracts,
                    cost_per_contract |-> cost,
                    total_cost |-> total_cost,
                    max_loss |-> total_cost,
                    max_profit |-> Str("Unlimited"),
                    breakeven |-> 100 * strike + cost,
                    target_delta |-> target_delta,
                    iv_rank |-> iv_rank,
                    trend_strength |-> trend_strength]))))

_generate_long_put(r, chain, f) ==
    LET iv_rank == Get(f, "iv_rank", U(50))
        trend_strength == _classify_trend_strength(f)
        target_delta == IF iv_rank < U(30) THEN -50
                        ELSE IF iv_rank < U(40) THEN -40 ELSE -30
    IN  Bind(_select_optimal_dte(chain, "LONG_PUT", iv_rank, trend_strength),
        LAMBDA dte :
        Bind(_find_strike_by_delta(chain, target_delta, "put", dte),
        LAMBDA strike :
        Bind(_get_option_cost(chain, strike, "put", dte),
        LAMBDA cost :
            LET max_loss_per_contract == cost
                contracts == calculate_position_size(r, max_loss_per_contract)
                total_cost == cost * contracts
            IN  Ok([strategy |-> "LONG_PUT",
                    action |-> "BUY",
                    option_type |-> "PUT",
                    strike |-> strike,
                    dte |-> dte,
                    contracts |-> contracts,
                    cost_per_contract |-> cost,
                    total_cost |-> total_cost,
                    max_loss |-> total_cost,
                    max_profit |-> Str("Unlimited"),
                    breakeven |-> 100 * strike - cost,
                    target_delta |-> target_delta,
                    iv_rank |-> iv_rank,
                    trend_strength |-> trend_strength]))))

_generate_bull_call_spread(r, chain, f) ==
    LET iv_rank == Get(f, "iv_rank", U(50))
        trend_strength == _classify_trend_strength(f)
        long_delta == IF iv_rank < U(50) THEN 50 ELSE 60
        short_delta == IF iv_rank < U(50) THEN 30 ELSE 25
    IN  Bind(_select_optimal_dte(chain, "BULL_CALL_SPREAD", iv_rank, trend_strength),
        LAMBDA dte :
        Bind(_find_strike_by_delta(chain, long_delta, "call", dte),
        LAMBDA long_strike :
        Bind(_find_strike_by_delta(chain, short_delta, "call", dte),
        LAMBDA short_strike :
        Bind(_get_option_cost(chain, long_strike, "call", dte),
        LAMBDA long_cost :
        Bind(_get_option_bid(chain, short_strike, "call", dte),
        LAMBDA short_credit :
            LET net_debit == long_cost - short_credit
                spread_width == (short_strike - long_strike) * 100
                max_profit == spread_width - net_debit
                contracts == calculate_position_size(r, net_debit)
                total_debit == net_debit * contracts
                total_max_profit == max_profit * contracts
            IN  Ok([strategy |-> "BULL_CALL_SPREAD",
                    long_strike |-> long_strike,
                    short_strike |-> short_strike,
                    dte |-> dte,
                    contracts |-> contracts,
                    net_debit |-> net_debit,
                    total_debit |-> total_debit,
                    max_profit |-> Num(max_profit),
                    total_max_profit |-> Num(total_max_profit),
                    max_loss |-> net_debit,
                    total_max_loss |-> total_debit,
                    breakeven |-> 100 * long_strike + net_debit,
                    spread_width |-> short_strike - long_strike,
                    risk_reward_ratio |->
                        IF net_debit > 0 THEN Ratio(max_profit, net_debit)
                        ELSE Ratio(0, 1),
                    iv_rank |-> iv_rank]))))))

_generate_bear_put_spread(r, chain, f) ==
    LET iv_rank == Get(f, "iv_rank", U(50))
        trend_strength == _classify_trend_strength(f)
        long_delta == IF iv_rank < U(50) THEN -50 ELSE -60
        short_delta == IF iv_rank < U(50) THEN -30 ELSE -25
    IN  Bind(_select_optimal_dte(chain, "BEAR_PUT_SPREAD", iv_rank, trend_strength),
        LAMBDA dte :
        Bind(_find_strike_by_delta(chain, long_delta, "put", dte),
        LAMBDA long_strike :
        Bind(_find_strike_by_delta(chain, short_delta, "put", dte),
        LAMBDA short_strike :
        Bind(_get_option_cost(chain, long_strike, "put", dte),
        LAMBDA long_cost :
        Bind(_get_option_bid(chain, short_strike, "put", dte),
        LAMBDA short_credit :
            LET net_debit == long_cost - short_credit
                spread_width == (long_strike - short_strike) * 100
                max_profit == spread_width - net_debit
                contracts == calculate_position_size(r, net_debit)
                total_debit == net_debit * contracts
                total_max_profit == max_profit * contracts
            IN  Ok([strategy |-> "BEAR_PUT_SPREAD",
                    long_strike |-> long_strike,
                    short_strike |-> short_strike,
                    dte |-> dte,
                    contracts |-> contracts,
                    net_debit |-> net_debit,
                    total_debit |-> total_debit,
                    max_profit |-> Num(max_profit),
                    total_max_profit |-> Num(total_max_profit),
                    max_loss |-> net_debit,
                    total_max_loss |-> total_debit,
                    breakeven |-> 100 * long_strike - net_debit,
                    spread_width |-> long_strike - short_strike,
                    risk_reward_ratio |->
                        IF net_debit > 0 THEN Ratio(max_profit, net_debit)
                        ELSE Ratio(0, 1),
                    iv_rank |-> iv_rank]))))))

_generate_long_straddle(r, chain, f) ==
    LET iv_rank == Get(f, "iv_rank", U(50))
    IN  Bind(_select_optimal_dte(chain, "LONG_STRADDLE", iv_rank, "MODERATE"),
        LAMBDA dte :
        Bind(_find_strike_by_delta(chain, 50, "call", dte),
        LAMBDA call_strike :
        Bind(_find_strike_by_delta(chain, -50, "put", dte),
        LAMBDA put_strike :
        Bind(_find_strike_by_price(chain, Ratio(call_strike + put_strike, 2),
                                   "call", dte),
        LAMBDA atm_strike :
        Bind(_get_option_cost(chain, atm_strike, "call", dte),
        LAMBDA call_cost :
        Bind(_get_option_cost(chain, atm_strike, "put", dte),
        LAMBDA put_cost :
            LET total_cost_per_contract == call_cost + put_cost
                contracts == calculate_position_size(r, total_cost_per_contract)
                total_cost == total_cost_per_contract * contracts
                breakeven_up == 100 * atm_strike + (call_cost + put_cost)
                breakeven_down == 100 * atm_strike - (call_cost + put_cost)
            IN  Ok([strategy |-> "LONG_STRADDLE",
                    strike |-> atm_strike,
                    dte |-> dte,
                    contracts |-> contracts,
                    call_cost |-> call_cost,
                    put_cost |-> put_cost,
                    cost_per_contract |-> total_cost_per_contract,
                    total_cost |-> total_cost,
                    max_loss |-> total_cost,
                    max_profit |-> Str("Unlimited"),
                    breakeven_up |-> breakeven_up,
                    breakeven_down |-> breakeven_down,
                    breakeven_range |-> breakeven_up - breakeven_down,
                    iv_rank |-> iv_rank])))))))

_generate_long_strangle(r, chain, f) ==
    LET iv_rank == Get(f, "iv_rank", U(50))
        call_delta == IF iv_rank < U(30) THEN 35 ELSE 25
        put_delta == IF iv_rank < U(30) THEN -35 ELSE -25
    IN  Bind(_select_optimal_dte(chain, "LONG_STRANGLE", iv_rank, "MODERATE"),
        LAMBDA dte :
        Bind(_find_strike_by_delta(chain, call_delta, "call", dte),
        LAMBDA call_strike :
        Bind(_find_strike_by_delta(chain, put_delta, "put", dte),
        LAMBDA put_strike :
        Bind(_get_option_cost(chain, call_strike, "call", dte),
        LAMBDA call_cost :
        Bind(_get_option_cost(chain, put_strike, "put", dte),
        LAMBDA put_cost :
            LET total_cost_per_contract == call_cost + put_cost
                contracts == calculate_position_size(r, total_cost_per_contract)
                total_cost == total_cost_per_contract * contracts
                breakeven_up == 100 * call_strike + (call_cost + put_cost)
                breakeven_down == 100 * put_strike - (call_cost + put_cost)
            IN  Ok([strategy |-> "LONG_STRANGLE",
                    call_strike |-> call_strike,
                    put_strike |-> put_strike,
                    dte |-> dte,
                    contracts |-> contracts,
                    call_cost |-> call_cost,
                    put_cost |-> put_cost,
                    cost_per_contract |-> total_cost_per_contract,
                    total_cost |-> total_cost,
                    max_loss |-> total_cost,
                    max_profit |-> Str("Unlimited"),
                    breakeven_up |-> breakeven_up,
                    breakeven_down |-> breakeven_down,
                    breakeven_range |-> breakeven_up - breakeven_down,
                    strike_width |-> call_strike - put_strike,
                    iv_rank |-> iv_rank]))))))


_generate_iron_condor(r, chain, f) ==
    LET iv_rank == Get(f, "iv_rank", U(50))
        put_short_delta == IF iv_rank > U(70) THEN -20 ELSE -25
        put_long_delta == IF iv_rank > U(70) THEN -10 ELSE -15
        call_short_delta == IF iv_rank > U(70) THEN 20 ELSE 25
        call_long_delta == IF iv_rank > U(70) THEN 10 ELSE 15
    IN  Bind(_select_optimal_dte(chain, "IRON_CONDOR", iv_rank, "WEAK"),
        LAMBDA dte :
        Bind(_find_strike_by_delta(chain, put_short_delta, "put", dte),
        LAMBDA put_short_strike :
        Bind(_find_strike_by_delta(chain, put_long_delta, "put", dte),
        LAMBDA put_long_strike :
        Bind(_find_strike_by_delta(chain, call_short_delta, "call", dte),
        LAMBDA call_short_strike :
        Bind(_find_strike_by_delta(chain, call_long_delta, "call", dte),
        LAMBDA call_long_strike :
        Bind(_get_option_bid(chain, put_short_strike, "put", dte),
        LAMBDA put_short_credit :
        Bind(_get_option_cost(chain, put_long_strike, "put", dte),
        LAMBDA put_long_cost :
        Bind(_get_option_bid(chain, call_short_strike, "call", dte),
        LAMBDA call_short_credit :
        Bind(_get_option_cost(chain, call_long_strike, "call", dte),
        LAMBDA call_long_cost :
            LET net_credit == put_short_credit + call_short_credit
                                - put_long_cost - call_long_cost
                put_spread_width == (put_short_strike - put_long_strike) * 100
                call_spread_width == (call_long_strike - call_short_strike) * 100
                max_loss == Max2(put_spread_width, call_spread_width) - net_credit
                contracts == calculate_position_size(r, max_loss)
                total_credit == net_credit * contracts
                total_max_loss == max_loss * contracts
            IN  Ok([strategy |-> "IRON_CONDOR",
                    put_short_strike |-> put_short_strike,
                    put_long_strike |-> put_long_strike,
                    call_short_strike |-> call_short_strike,
                    call_long_strike |-> call_long_strike,
                    dte |-> dte,
                    contracts |-> contracts,
                    net_credit |-> net_credit,
                    total_credit |-> total_credit,
                    max_profit |-> Num(net_credit),
                    total_max_profit |-> Num(total_credit),
                    max_loss |-> max_loss,
                    total_max_loss |-> total_max_loss,
                    breakeven_down |-> 100 * put_short_strike - net_credit,
                    breakeven_up |-> 100 * call_short_strike + net_credit,
                    profit_zone_width |-> call_short_strike - put_short_strike,
                    risk_reward_ratio |->
                        IF max_loss > 0 THEN Ratio(net_credit, max_loss)
                        ELSE Ratio(0, 1),
                    iv_rank |-> iv_rank]))))))))))

_generate_iron_butterfly(r, chain, f) ==
    LET iv_rank == Get(f, "iv_rank", U(50))
        \* wing_pct in percent: 0.07 or 0.05
        wing_pct == IF iv_rank > U(75) THEN 7 ELSE 5
    IN  Bind(_select_optimal_dte(chain, "IRON_BUTTERFLY", iv_rank, "WEAK"),
        LAMBDA dte :
        Bind(_find_strike_by_delta(chain, 50, "call", dte),
        LAMBDA atm_strike :
        Bind(_find_strike_by_price(chain, Ratio(atm_strike * (100 - wing_pct), 100),
                                   "put", dte),
        LAMBDA long_put_strike :
        Bind(_find_strike_by_price(chain, Ratio(atm_strike * (100 + wing_pct), 100),
                                   "call", dte),
        LAMBDA long_call_strike :
        Bind(_get_option_bid(chain, atm_strike, "put", dte),
        LAMBDA atm_put_credit :
        Bind(_get_option_bid(chain, atm_strike, "call", dte),
        LAMBDA atm_call_credit :
        Bind(_get_option_cost(chain, long_put_strike, "put", dte),
        LAMBDA long_put_cost :
        Bind(_get_option_cost(chain, long_call_strike, "call", dte),
        LAMBDA long_call_cost :
            LET net_credit == atm_put_credit + atm_call_credit
                                - long_put_cost - long_call_cost
                wing_width == Max2((atm_strike - long_put_strike) * 100,
                                   (long_call_strike - atm_strike) * 100)
                max_loss == wing_width - net_credit
                contracts == calculate_position_size(r, max_loss)
                total_credit == net_credit * contracts
                total_max_loss == max_loss * contracts
            IN  Ok([strategy |-> "IRON_BUTTERFLY",
                    center_strike |-> atm_strike,
                    long_put_strike |-> long_put_strike,
                    long_call_strike |-> long_call_strike,
                    dte |-> dte,
                    contracts |-> contracts,
                    net_credit |-> net_credit,
                    total_credit |-> total_credit,
                    max_profit |-> Num(net_credit),
                    total_max_profit |-> Num(total_credit),
                    max_loss |-> max_loss,
                    total_max_loss |-> total_max_loss,
                    breakeven_down |-> 100 * atm_strike - net_credit,
                    breakeven_up |-> 100 * atm_strike + net_credit,
                    profit_zone_width |-> net_credit * 2,
                    wing_width |-> Ratio(wing_width, 100),
                    risk_reward_ratio |->
                        IF max_loss > 0 THEN Ratio(net_credit, max_loss)
                        ELSE Ratio(0, 1),
                    iv_rank |-> iv_rank])))))))))

\* near_dte and far_dte of the calendar and the diagonal spread:
\* min(available, key = |x - 21|), then the expiration more than 14 days
\* later that is nearest to 45, or near_dte + 30 when there is none.
NearDte(available_dtes) == NearestTo(available_dtes, 21)
FarDte_any_later(available_dtes, near_dte) ==
    LET later == {d \in available_dtes : d > near_dte}
    IN  IF later = {} THEN near_dte + 30 ELSE NearestTo(later, 45)

FarDte(available_dtes, near_dte) ==
    LET later == {d \in available_dtes : d > near_dte + 14}
    IN  IF later = {} THEN near_dte + 30 ELSE NearestTo(later, 45)

_generate_calendar_spread(r, chain, f) ==
    LET iv_rank == Get(f, "iv_rank", U(50))
        available_dtes == AvailableDtes(chain)
    IN  IF available_dtes = {}
        THEN Err(EmptySequence)
        ELSE
        LET near_dte == NearDte(available_dtes)
            far_dte == FarDte(available_dtes, near_dte)
            rsi == Get(f, "rsi_14", U(50))
            option_type == IF rsi > U(50) THEN "call" ELSE "put"
        IN  Bind(_find_strike_by_delta(chain, 50, "call", near_dte),
            LAMBDA atm_strike :
            Bind(_get_option_bid(chain, atm_strike, option_type, near_dte),
            LAMBDA near_credit :
            Bind(_get_option_cost(chain, atm_strike, option_type, far_dte),
            LAMBDA far_cost :
                LET net_debit == far_cost - near_credit
                    contracts == calculate_position_size(r, net_debit)
                    total_debit == net_debit * contracts
                IN  Ok([strategy |-> "CALENDAR_SPREAD",
                        strike |-> atm_strike,
                        option_type |-> IF option_type = "call" THEN "CALL" ELSE "PUT",
                        near_dte |-> near_dte,
                        far_dte |-> far_dte,
                        contracts |-> contracts,
                        net_debit |-> net_debit,
                        total_debit |-> total_debit,
                        max_loss |-> net_debit,
                        total_max_loss |-> total_debit,
                        max_profit |-> Str("Variable (depends on IV expansion)"),
                        note |-> "Profit maximized if price stays near strike at near expiration",
                        iv_rank |-> iv_rank]))))

_generate_diagonal_spread(r, chain, f) ==
    LET iv_rank == Get(f, "iv_rank", U(50))
        rsi == Get(f, "rsi_14", U(50))
        available_dtes == AvailableDtes(chain)
    IN  IF available_dtes = {}
        THEN Err(EmptySequence)
        ELSE
        LET near_dte == NearDte(available_dtes)
            far_dte == FarDte(available_dtes, near_dte)
            option_type == IF rsi > U(55) THEN "call" ELSE "put"
            long_delta == IF rsi > U(55) THEN 50 ELSE -50
            short_delta == IF rsi > U(55) THEN 30 ELSE -30
        IN  Bind(_find_strike_by_delta(chain, long_delta, option_type, far_dte),
            LAMBDA long_strike :
            Bind(_find_strike_by_delta(chain, short_delta, option_type, near_dte),
            LAMBDA short_strike :
            Bind(_get_option_cost(chain, long_strike, option_type, far_dte),
            LAMBDA long_cost :
            Bind(_get_option_bid(chain, short_strike, option_type, near_dte),
            LAMBDA short_credit :
                LET net_debit == long_cost - short_credit
                    contracts == calculate_position_size(r, net_debit)
                    total_debit == net_debit * contracts
                IN  Ok([strategy |-> "DIAGONAL_SPREAD",
                        option_type |-> IF option_type = "call" THEN "CALL" ELSE "PUT",
                        long_strike |-> long_strike,
                        short_strike |-> short_strike,
                        near_dte |-> near_dte,
                        far_dte |-> far_dte,
                        contracts |-> contracts,
                        net_debit |-> net_debit,
                        total_debit |-> total_debit,
                        max_loss |-> net_debit,
                        total_max_loss |-> total_debit,
                        max_profit |-> Str("Variable (depends on price movement and IV)"),
                        bias |-> IF option_type = "call" THEN "Bullish" ELSE "Bearish",
                        note |-> "Roll short option at expiration to continue position",
                        iv_rank |-> iv_rank])))))

\* ParameterGenerator.generate: the dispatch on the strategy name.
generate_put_as_call(r, strategy, chain, f) ==
    CASE strategy = "LONG_CALL" -> _generate_long_call(r, chain, f)
      [] strategy = "LONG_PUT" -> _generate_long_call(r, chain, f)
      [] strategy = "BULL_CALL_SPREAD" -> _generate_bull_call_spread(r, chain, f)
      [] strategy = "BEAR_PUT_SPREAD" -> _generate_bear_put_spread(r, chain, f)
      [] strategy = "LONG_STRADDLE" -> _generate_long_straddle(r, chain, f)
      [] strategy = "LONG_STRANGLE" -> _generate_long_strangle(r, chain, f)
      [] strategy = "IRON_CONDOR" -> _generate_iron_condor(r, chain, f)
      [] strategy = "IRON_BUTTERFLY" -> _generate_iron_butterfly(r, chain, f)
      [] strategy = "CALENDAR_SPREAD" -> _generate_calendar_spread(r, chain, f)
      [] strategy = "DIAGONAL_SPREAD" -> _generate_diagonal_spread(r, chain, f)
      [] OTHER -> Err(UnknownStrategy(strategy))

generate(r, strategy, chain, f) ==
    CASE strategy = "LONG_CALL" -> _generate_long_call(r, chain, f)
      [] strategy = "LONG_PUT" -> _generate_long_put(r, chain, f)
      [] strategy = "BULL_CALL_SPREAD" -> _generate_bull_call_spread(r, chain, f)
      [] strategy = "BEAR_PUT_SPREAD" -> _generate_bear_put_spread(r, chain, f)
      [] strategy = "LONG_STRADDLE" -> _generate_long_straddle(r, chain, f)
      [] strategy = "LONG_STRANGLE" -> _generate_long_strangle(r, chain, f)
      [] strategy = "IRON_CONDOR" -> _generate_iron_condor(r, chain, f)
      [] strategy = "IRON_BUTTERFLY" -> _generate_iron_butterfly(r, chain, f)
      [] strategy = "CALENDAR_SPREAD" -> _generate_calendar_spread(r, chain, f)
      [] strategy = "DIAGONAL_SPREAD" -> _generate_diagonal_spread(r, chain, f)
      [] OTHER -> Err(UnknownStrategy(strategy))

(***************************************************************************)
(* The orchestrator step (RecommendationAgent.generate_parameters)         *)
(***************************************************************************)
\* str / float
TypeError == [exc |-> "TypeError", error |-> "unsupported operand type(s) for /"]

\* 'unlimited' in max_profit.lower(), over the strings the generators return
ContainsUnlimited(t) == t = "Unlimited"

\* RiskManager.validate_trade on a max_profit that is a float or a str: the
\* division is evaluated only when max_loss != 0.
validate_trade_value(r, max_loss, max_profit) ==
    IF max_profit.type = "str"
    THEN IF max_loss # 0 THEN Err(TypeError) ELSE Ok(validate_trade(r, max_loss, 0))
    ELSE Ok(validate_trade(r, max_loss, max_profit.num))

generate_parameters(r, strategy, chain, f) ==
    Bind(generate(r, strategy, chain, f),
    LAMBDA parameters :
        IF "max_loss" \in DOMAIN parameters /\ "max_profit" \in DOMAIN parameters
        THEN LET max_loss == IF "total_max_loss" \in DOMAIN parameters
                             THEN parameters.total_max_loss
                             ELSE parameters.max_loss
                 max_profit0 == IF "total_max_profit" \in DOMAIN parameters
                                THEN parameters.total_max_profit
                                ELSE parameters.max_profit
                 max_profit == IF max_profit0.type = "str"
                                    /\ ContainsUnlimited(max_profit0.str)
                               THEN Num(Abs(max_loss) * 3)
                               ELSE max_profit0
             IN  Bind(validate_trade_value(r, Abs(max_loss), max_profit),
                 LAMBDA validation :
                     Ok([risk_validation |-> validation] @@ parameters))
        ELSE Ok(parameters))

(***************************************************************************)
(* Option chains.  Each contract key (type, strike, expiration) occurs at  *)
(* most once in a chain; the rows are in any order.                        *)
(***************************************************************************)
OptionTypes == {"call", "put"}
ChainDtes == {21, 45}
StrikesOf(option_type) == IF option_type = "call" THEN {100, 105, 110} ELSE {90, 95, 100}

\* delta in hundredths: at the money 0.50, then 0.30 and 0.15 out of the money
QuoteDelta(option_type, strike) ==
    LET d == IF strike = 100 THEN 50 ELSE IF strike \in {95, 105} THEN 30 ELSE 15
    IN  IF option_type = "call" THEN d ELSE -d

\* ask and bid in cents
QuoteAsk(option_type, strike, dte) ==
    LET base == IF strike = 100 THEN 70 ELSE IF strike \in {95, 105} THEN 30 ELSE 12
    IN  base + (IF option_type = "put" THEN -2 ELSE 0) + (IF dte = 45 THEN 40 ELSE 0)
QuoteBid(option_type, strike, dte) == QuoteAsk(option_type, strike, dte) - 8

Contract(option_type, strike, dte) ==
    [strike |-> strike, type |-> option_type, dte |-> dte,
     bid |-> QuoteBid(option_type, strike, dte),
     ask |-> QuoteAsk(option_type, strike, dte),
     delta |-> QuoteDelta(option_type, strike)]

Contracts ==
    UNION {{Contract(t, k, d) : k \in StrikesOf(t), d \in ChainDtes} : t \in OptionTypes}

Chains ==
    UNION {{c \in [1..n -> Contracts] : \A i, j \in 1..n : i # j => c[i] # c[j]} :
              n \in 0..MaxChain}

\* A chain quoted in whole dollars: the 100 call at 5.00 / 4.80 and the 110
\* call at 1.20 / 1.00, 21 days out.
ScenarioChains ==
    {<<[strike |-> 100, type |-> "call", dte |-> 21,
        bid |-> 480, ask |-> 500, delta |-> 50],
       [strike |-> 110, type |-> "call", dte |-> 21,
        bid |-> 100, ask |-> 120, delta |-> 30]>>,
     \* the four legs of an iron condor
     <<Contract("put", 95, 21), Contract("put", 90, 21),
       Contract("call", 105, 21), Contract("call", 110, 21)>>,
     \* the four legs of an iron butterfly with unequal wings
     <<Contract("put", 100, 21), Contract("call", 100, 21),
       Contract("put", 90, 21), Contract("call", 105, 21)>>,
     \* an expiration 9 days after the near one, with and without a later one
     <<Contract("call", 100, 21), Contract("call", 100, 30),
       Contract("call", 100, 45)>>,
     <<Contract("call", 100, 21), Contract("call", 100, 30)>>}

\* The snapshots the generator is run on.
GenSnapshots ==
    {Snapshot(FeatureKeys, U(25), U(35), 4, U(70), 0),
     Snapshot(FeatureKeys, U(35), U(10), 2, U(52), 0),
     Snapshot(FeatureKeys, U(45), U(10), 2, U(30), 0),
     Snapshot(FeatureKeys, U(60), U(10), 2, U(52), 0),
     Snapshot(FeatureKeys, U(72), U(10), 2, U(60), 0),
     Snapshot(FeatureKeys, U(80), U(10), 2, U(30), 0),
     Snapshot(FeatureKeys \ {"iv_rank"}, 0, U(35), 4, U(70), 0),
     EmptySnapshot}

GenRiskManagers == {DefaultRiskManager, RiskManagerInit(10000, 2, 3)}

UnknownLabels == {"COVERED_CALL", "long_call"}

Returned(r) ==
    IF r.ok THEN [kind |-> "trade", value |-> r.value]
    ELSE [kind |-> "error", value |-> r.error]

\* One trade-generation call per behaviour: the generator keeps no state from
\* one call to the next, so a call is made on the inputs as constructed.
Generate ==
    /\ call = NoCall
    /\ \E strategy \in Strategies \cup UnknownLabels :
          /\ call' = [op |-> "generate", strategy |-> strategy]
          /\ result' = Returned(generate(rm, strategy, option_chain, features))
    /\ UNCHANGED <<rm, option_chain, features, history, procs, ml_model, training_data, loader>>

GenerateParameters ==
    /\ call = NoCall
    /\ \E strategy \in Strategies \cup UnknownLabels :
          /\ call' = [op |-> "generate_parameters", strategy |-> strategy]
          /\ result' = Returned(generate_parameters(rm, strategy, option_chain, features))
    /\ UNCHANGED <<rm, option_chain, features, history, procs, ml_model, training_data, loader>>

InitGenerator ==
    /\ rm \in GenRiskManagers
    /\ option_chain \in Chains \cup ScenarioChains
    /\ features \in GenSnapshots
    /\ call = NoCall
    /\ result = NoResult
    /\ history = <<>>
    /\ procs = <<>>
    /\ ml_model = NoModel
    /\ training_data = <<>>
    /\ loader = NoLoader

NextGenerator == Generate \/ GenerateParameters

SpecGenerator == InitGenerator /\ [][NextGenerator]_vars

(***************************************************************************)
(* Several callers on one option chain and one RiskManager.  A generate    *)
(* call is entered, selects its expiration and strikes, then prices the    *)
(* legs and sizes the position; the steps of different callers interleave. *)
(* What a step leaves in the shared objects is given by the two operators  *)
(* below.                                                                  *)
(***************************************************************************)
option_chain_with_diff_column(chain) ==
    [i \in 1..Len(chain) |-> [delta_diff |-> 0] @@ chain[i]]

\* _find_strike_by_delta / _find_strike_by_price filter the chain into
\* `filtered`, a .copy(), and assign the delta_diff / price_diff column to
\* that copy; _select_optimal_dte, _get_option_cost and _get_option_bid
\* only read.  The chain is left as it was.
option_chain_after_lookup(chain) == chain

risk_manager_reserving(r) ==
    [r EXCEPT !.max_risk_amount = @ \div 2]

\* calculate_position_size and validate_trade read account_size,
\* risk_per_trade, max_contracts and max_risk_amount and assign to no
\* attribute: only __init__ does.
risk_manager_after_call(r) == r

Callers == 1..MaxProcs

Idle == [pc |-> "idle"]

SessionChains ==
    {<<>>,
     <<Contract("put", 95, 21), Contract("put", 90, 21),
       Contract("call", 105, 21), Contract("call", 110, 21)>>,
     <<Contract("call", 100, 21), Contract("call", 100, 30),
       Contract("call", 100, 45)>>}

SessionSnapshot == Snapshot(FeatureKeys, U(35), U(10), 2, U(60), 0)

\* The labels the callers ask for: one of each family of builders, and one
\* outside the enumeration.
SessionLabels ==
    {"LONG_CALL", "BEAR_PUT_SPREAD", "IRON_CONDOR", "CALENDAR_SPREAD", "COVERED_CALL"}

\* generate is entered with a strategy label.
CallGenerate(p) ==
    /\ procs[p].pc \in {"idle", "done"}
    /\ \E strategy \in SessionLabels :
          procs' = [procs EXCEPT ![p] = [pc |-> "called", strategy |-> strategy]]
    /\ UNCHANGED <<rm, option_chain, features, call, result, history, ml_model, training_data, loader>>

\* The dispatch, then the selection of the expiration and the strikes.
SelectStrikes(p) ==
    /\ procs[p].pc = "called"
    /\ IF procs[p].strategy \in Strategies
       THEN /\ procs' = [procs EXCEPT ![p].pc = "selected"]
            /\ option_chain' = option_chain_after_lookup(option_chain)
       ELSE /\ procs' = [procs EXCEPT ![p] =
                            [pc |-> "done", strategy |-> procs[p].strategy,
                             result |-> Returned(Err(UnknownStrategy(procs[p].strategy)))]]
            /\ UNCHANGED option_chain
    /\ UNCHANGED <<rm, features, call, result, history, ml_model, training_data, loader>>

\* The prices are read, the position is sized, the call returns or raises.
PriceAndSize(p) ==
    /\ procs[p].pc = "selected"
    /\ procs' = [procs EXCEPT ![p] =
                    [pc |-> "done", strategy |-> procs[p].strategy,
                     result |-> Returned(generate(rm, procs[p].strategy,
                                                  option_chain, features))]]
    /\ option_chain' = option_chain_after_lookup(option_chain)
    /\ rm' = risk_manager_after_call(rm)
    /\ UNCHANGED <<features, call, result, history, ml_model, training_data, loader>>

\* A strike selection called on its own.
FindStrikeByDelta ==
    /\ \E option_type \in OptionTypes, target_delta \in {25, 50} :
          /\ call' = [op |-> "_find_strike_by_delta", option_type |-> option_type,
                      target_delta |-> target_delta]
          /\ LET r == _find_strike_by_delta(option_chain, target_delta,
                                            option_type, 21)
             IN  result' = IF r.ok THEN [kind |-> "strike", value |-> r.value]
                                   ELSE Returned(r)
    /\ option_chain' = option_chain_after_lookup(option_chain)
    /\ UNCHANGED <<rm, features, history, procs, ml_model, training_data, loader>>

\* The two RiskManager methods called on their own.
SizePosition ==
    /\ \E m \in {0, 150} :
          /\ call' = [op |-> "calculate_position_size", max_loss_per_contract |-> m]
          /\ result' = [kind |-> "contracts", value |-> calculate_position_size(rm, m)]
    /\ rm' = risk_manager_after_call(rm)
    /\ UNCHANGED <<option_chain, features, history, procs, ml_model, training_data, loader>>

ValidateSizedTrade ==
    /\ \E max_loss \in {-300, 0} :
          /\ call' = [op |-> "validate_trade", max_loss |-> max_loss, max_profit |-> 100]
          /\ result' = [kind |-> "validation",
                        value |-> validate_trade(rm, max_loss, 100)]
    /\ rm' = risk_manager_after_call(rm)
    /\ UNCHANGED <<option_chain, features, history, procs, ml_model, training_data, loader>>

InitConcurrent ==
    /\ rm \in GenRiskManagers
    /\ option_chain \in SessionChains
    /\ features = SessionSnapshot
    /\ call = NoCall
    /\ result = NoResult
    /\ history = <<>>
    /\ procs = [p \in Callers |-> Idle]
    /\ ml_model = NoModel
    /\ training_data = <<>>
    /\ loader = NoLoader

NextConcurrent ==
    \/ \E p \in Callers : CallGenerate(p)
    \/ \E p \in Callers : SelectStrikes(p)
    \/ \E p \in Callers : PriceAndSize(p)
    \/ FindStrikeByDelta
    \/ SizePosition
    \/ ValidateSizedTrade

SpecConcurrent == InitConcurrent /\ [][NextConcurrent]_vars

(***************************************************************************)
(* Stage 1 of the orchestrator: the classifier's answer decoded            *)
(* (recommendation_agent.py, 6_predict_strategy.py).                       *)
(*                                                                         *)
(* Indices are Python's, counted from 0: entry idx of an array is element  *)
(* idx + 1 of the sequence.  A probability is counted in units of          *)
(* 1/ProbSteps.                                                            *)
(***************************************************************************)
\* LabelEncoder.classes_ for the ten strategies: the labels in sorted order.
SortedStrategies ==
    <<"BEAR_PUT_SPREAD", "BULL_CALL_SPREAD", "CALENDAR_SPREAD",
      "DIAGONAL_SPREAD", "IRON_BUTTERFLY", "IRON_CONDOR", "LONG_CALL",
      "LONG_PUT", "LONG_STRADDLE", "LONG_STRANGLE">>

\* The label table fitted on training data holding the labels at the
\* positions picked: those labels, in sorted order.
RECURSIVE LabelTable(_, _)
LabelTable(picked, from) ==
    IF from > Len(SortedStrategies)
    THEN <<>>
    ELSE IF from \in picked
         THEN <<SortedStrategies[from]>> \o LabelTable(picked, from + 1)
         ELSE LabelTable(picked, from + 1)

inverse_transform(classes, idx) == classes[idx + 1]

\* numpy's argsort with the default (unstable) sort: an ordering of the
\* indices along which the values never decrease; among equal values any
\* order.
argsort(values) ==
    LET n == Len(values)
    IN  {order \in [1..n -> 0..(n - 1)] :
            /\ \A i, j \in 1..n : i # j => order[i] # order[j]
            /\ \A i \in 1..(n - 1) :
                  values[order[i] + 1] <= values[order[i + 1] + 1]}

TopThree_unreversed(order) ==
    LET n == Len(order)
        k == Min2(3, n)
    IN  [i \in 1..k |-> order[n - k + i]]

\* order[-3:][::-1]
TopThree(order) ==
    LET n == Len(order)
        k == Min2(3, n)
    IN  [i \in 1..k |-> order[n + 1 - i]]

\* RecommendationAgent.predict_strategy, given what argsort returned.
predict_strategy(m, order) ==
    LET prediction == m.prediction
        probabilities == m.probabilities
        top_3_idx == TopThree(order)
    IN  [strategy |-> inverse_transform(m.classes, prediction),
         confidence |-> probabilities[prediction + 1],
         alternatives |->
             [i \in 1..Len(top_3_idx) |->
                 [strategy |-> inverse_transform(m.classes, top_3_idx[i]),
                  confidence |-> probabilities[top_3_idx[i] + 1]]],
         model_version |-> "v1.0"]

\* StrategyPredictor.predict_strategy of the command-line predictor.
StrategyPredictor_predict_strategy(m, order) ==
    LET strategy_idx == m.prediction
        strategy_proba == m.probabilities
        top3_idx == TopThree(order)
    IN  [strategy |-> inverse_transform(m.classes, strategy_idx),
         confidence |-> strategy_proba[strategy_idx + 1],
         top3_strategies |->
             [i \in 1..Len(top3_idx) |-> inverse_transform(m.classes, top3_idx[i])],
         top3_probabilities |->
             [i \in 1..Len(top3_idx) |-> strategy_proba[top3_idx[i] + 1]],
         all_probabilities |-> strategy_proba]

PredictStrategy ==
    /\ call = NoCall
    /\ \E order \in argsort(ml_model.probabilities) :
          /\ call' = [op |-> "predict_strategy", order |-> order]
          /\ result' = [kind |-> "prediction",
                        value |-> predict_strategy(ml_model, order)]
    /\ UNCHANGED <<rm, option_chain, features, history, procs, ml_model, training_data, loader>>

PredictStrategyCli ==
    /\ call = NoCall
    /\ \E order \in argsort(ml_model.probabilities) :
          /\ call' = [op |-> "StrategyPredictor.predict_strategy", order |-> order]
          /\ result' = [kind |-> "prediction",
                        value |-> StrategyPredictor_predict_strategy(ml_model, order)]
    /\ UNCHANGED <<rm, option_chain, features, history, procs, ml_model, training_data, loader>>

\* Probability vectors over n classes: non-negative, summing to one.
RECURSIVE SumSeq(_)
SumSeq(s) == IF s = <<>> THEN 0 ELSE Head(s) + SumSeq(Tail(s))

ProbabilityVectors(n) ==
    {p \in [1..n -> 0..ProbSteps] : SumSeq(p) = ProbSteps}

\* Label tables of n labels: n labels that follow one another in the sorted
\* order, or every second label.  A classifier is a label table of two to
\* MaxClasses labels, the probability vector predict_proba returns and the
\* class predict returns, one of highest probability.
LabelTables(n) ==
    {LabelTable(k..(k + n - 1), 1) : k \in 1..(Len(SortedStrategies) - n + 1)}
    \cup {LabelTable({2 * i - 1 : i \in 1..n}, 1)}

InitPredict ==
    /\ rm = DefaultRiskManager
    /\ option_chain = <<>>
    /\ features = EmptySnapshot
    /\ call = NoCall
    /\ result = NoResult
    /\ history = <<>>
    /\ procs = <<>>
    /\ \E n \in 2..MaxClasses :
          \E p \in ProbabilityVectors(n), classes \in LabelTables(n), c \in 0..(n - 1) :
             /\ \A i \in 1..n : p[i] <= p[c + 1]
             /\ ml_model = [classes |-> classes, probabilities |-> p, prediction |-> c]
    /\ training_data = <<>>
    /\ loader = NoLoader

NextPredict == PredictStrategy \/ PredictStrategyCli

SpecPredict == InitPredict /\ [][NextPredict]_vars

(***************************************************************************)
(* validate_strategy_distribution (strategy_selector.py).  training_data   *)
(* is the 'strategy' column, a sequence of labels.  A percentage           *)
(* count / total * 100 is compared exactly: actual_pct < min_pct is        *)
(* 100 * count < min_pct * total.                                          *)
(***************************************************************************)
\* expected_ranges, in the order the dict is written and iterated.
expected_ranges ==
    <<[strategy |-> "IRON_CONDOR", min_pct |-> 20, max_pct |-> 30],
      [strategy |-> "LONG_CALL", min_pct |-> 15, max_pct |-> 20],
      [strategy |-> "LONG_PUT", min_pct |-> 15, max_pct |-> 20],
      [strategy |-> "IRON_BUTTERFLY", min_pct |-> 10, max_pct |-> 15],
      [strategy |-> "BULL_CALL_SPREAD", min_pct |-> 10, max_pct |-> 15],
      [strategy |-> "BEAR_PUT_SPREAD", min_pct |-> 10, max_pct |-> 15],
      [strategy |-> "LONG_STRADDLE", min_pct |-> 5, max_pct |-> 10],
      [strategy |-> "LONG_STRANGLE", min_pct |-> 5, max_pct |-> 10],
      [strategy |-> "CALENDAR_SPREAD", min_pct |-> 3, max_pct |-> 5],
      [strategy |-> "DIAGONAL_SPREAD", min_pct |-> 3, max_pct |-> 5]>>

\* training_data['strategy'].value_counts(): the number of rows per label
\* that occurs.
value_counts(column) ==
    [label \in {column[i] : i \in 1..Len(column)} |->
        Cardinality({i \in 1..Len(column) : column[i] = label})]

\* The elements of s at the positions of the set pos, in order.
RECURSIVE SelectAt(_, _)
SelectAt(s, pos) ==
    IF pos = {}
    THEN <<>>
    ELSE LET first == CHOOSE i \in pos : \A j \in pos : i <= j
         IN  <<s[first]>> \o SelectAt(s, pos \ {first})

validate_strategy_distribution(column) ==
    LET counts == value_counts(column)
        total == Len(column)
        count(strategy) == IF strategy \in DOMAIN counts THEN counts[strategy] ELSE 0
        out_of_band(r) ==
            \/ 100 * count(r.strategy) < r.min_pct * total
            \/ 100 * count(r.strategy) > r.max_pct * total
        banded ==
            [i \in 1..Len(expected_ranges) |->
                [strategy |-> expected_ranges[i].strategy,
                 expected |-> <<expected_ranges[i].min_pct, expected_ranges[i].max_pct>>,
                 actual |-> <<count(expected_ranges[i].strategy), total>>,
                 status |-> "FAIL"]]
        failures ==
            SelectAt(banded, {i \in 1..Len(expected_ranges) : out_of_band(expected_ranges[i])})
        missing ==
            IF Cardinality(DOMAIN counts) < 10
            THEN <<[issue |-> "Missing strategies",
                    expected |-> 10,
                    actual |-> Cardinality(DOMAIN counts),
                    missing |-> {expected_ranges[i].strategy : i \in 1..Len(expected_ranges)}
                                    \ DOMAIN counts,
                    status |-> "FAIL"]>>
            ELSE <<>>
    IN  [is_valid |-> Len(failures \o missing) = 0, failures |-> failures \o missing]

ValidateStrategyDistribution ==
    /\ call = NoCall
    /\ call' = [op |-> "validate_strategy_distribution"]
    /\ result' = [kind |-> "validation",
                  value |-> validate_strategy_distribution(training_data)]
    /\ UNCHANGED <<rm, option_chain, features, history, procs, ml_model, training_data, loader>>

\* The ten labels and a label that is none of the ten.
ColumnLabels ==
    [i \in 1..(Len(expected_ranges) + 1) |->
        IF i <= Len(expected_ranges) THEN expected_ranges[i].strategy ELSE "COVERED_CALL"]

\* A column holding counts[i] rows of label i, for the labels from i on.
RECURSIVE Rows(_, _)
Rows(counts, i) ==
    IF i > Len(ColumnLabels)
    THEN <<>>
    ELSE [k \in 1..counts[i] |-> ColumnLabels[i]] \o Rows(counts, i + 1)

InitDistribution ==
    /\ rm = DefaultRiskManager
    /\ option_chain = <<>>
    /\ features = EmptySnapshot
    /\ call = NoCall
    /\ result = NoResult
    /\ history = <<>>
    /\ procs = <<>>
    /\ ml_model = NoModel
    \* The columns: twenty rows with every strategy at the lower end of its
    \* band, or no rows at all, with the counts of up to two labels replaced.
    /\ training_data \in
          {Rows([[base EXCEPT ![a] = x] EXCEPT ![b] = y], 1) :
              base \in {<<4, 3, 3, 2, 2, 2, 1, 1, 1, 1, 0>>,
                        <<0, 0, 0, 0, 0, 0, 0, 0, 0, 0, 0>>},
              a \in 1..Len(ColumnLabels), b \in 1..Len(ColumnLabels),
              x \in 0..MaxLabelCount, y \in 0..MaxLabelCount}
    /\ loader = NoLoader

NextDistribution == ValidateStrategyDistribution

SpecDistribution == InitDistribution /\ [][NextDistribution]_vars

(***************************************************************************)
(* ModelLoader (model_loader.py).  A path is the model directory and the   *)
(* file name; the object a read of the source produces is a new object,    *)
(* told from every other one by the number of the read that made it.       *)
(* _model_cache is a dict: its entries in insertion order.                 *)
(***************************************************************************)
Dir(prefix, name, environment) ==
    [prefix |-> prefix, name |-> name, environment |-> environment]

Path(dir, file) == [dir |-> dir, file |-> file]

\* The four files load_models_for_ticker loads, in the order it loads them.
ModelFiles ==
    <<[key |-> "ml_model", file |-> "lightgbm_clean_model.pkl"],
      [key |-> "label_encoder", file |-> "label_encoder_clean.pkl"],
      [key |-> "feature_names", file |-> "feature_names_clean.json"],
      [key |-> "metadata", file |-> "metadata.json"]>>

\* file_path.endswith('.json') / ('.pkl')
FileType(file) ==
    IF file \in {"lightgbm_clean_model.pkl", "label_encoder_clean.pkl"}
    THEN "pkl"
    ELSE IF file \in {"feature_names_clean.json", "metadata.json"}
         THEN "json"
         ELSE "other"

FileNotFound(path) == [exc |-> "FileNotFoundError", path |-> path]
UnsupportedFileType(path) == [exc |-> "ValueError", path |-> path]

CachedPaths(cache) == {cache[i].path : i \in 1..Len(cache)}

CacheLookup(cache, path) ==
    cache[CHOOSE i \in 1..Len(cache) : cache[i].path = path].obj

\* _load_file_local / _load_file_s3: one read of the source.
_load_file(l, file_path) ==
    LET read == [l EXCEPT !.reads = @ + 1]
        obj == [path |-> file_path, id |-> l.reads + 1]
    IN  IF file_path \notin l.files
        THEN [loader |-> read, outcome |-> Err(FileNotFound(file_path))]
        ELSE IF FileType(file_path.file) \in {"json", "pkl"}
        THEN [loader |-> read, outcome |-> Ok(obj)]
        ELSE IF l.source = "local"
        THEN [loader |-> read, outcome |-> Err(UnsupportedFileType(file_path))]
        ELSE [loader |-> read, outcome |-> Err(FileNotFound(file_path))]

load_file_always_reads(l, file_path, use_cache) ==
    LET loaded == _load_file(l, file_path)
    IN  IF ~loaded.outcome.ok
        THEN loaded
        ELSE IF use_cache
        THEN [loader |-> [loaded.loader EXCEPT !.cache =
                              Append(SelectSeq(@, LAMBDA e : e.path # file_path),
                                     [path |-> file_path, obj |-> loaded.outcome.value])],
              outcome |-> loaded.outcome]
        ELSE loaded

load_file(l, file_path, use_cache) ==
    IF use_cache /\ file_path \in CachedPaths(l.cache)
    THEN [loader |-> l, outcome |-> Ok(CacheLookup(l.cache, file_path))]
    ELSE LET loaded == _load_file(l, file_path)
         IN  IF ~loaded.outcome.ok
             THEN loaded
             ELSE IF use_cache
             THEN [loader |-> [loaded.loader EXCEPT !.cache =
                                   Append(@, [path |-> file_path,
                                              obj |-> loaded.outcome.value])],
                   outcome |-> loaded.outcome]
             ELSE loaded

get_model_path_for_ticker(l, ticker) ==
    IF ticker \in l.asset_registry.etfs
    THEN Dir("etfs", ticker, l.environment)
    ELSE IF ticker \in l.asset_registry.stocks
    THEN Dir("stocks", "universal", l.environment)
    ELSE Dir("etfs", ticker, l.environment)

\* The dict literal of load_models_for_ticker: the files from the i-th on,
\* loaded one after the other; the first load that raises ends the call.
RECURSIVE LoadModelFiles(_, _, _, _)
LoadModelFiles(l, model_path, i, models) ==
    IF i > Len(ModelFiles)
    THEN [loader |-> l, outcome |-> Ok(models)]
    ELSE LET loaded == load_file(l, Path(model_path, ModelFiles[i].file), TRUE)
         IN  IF ~loaded.outcome.ok
             THEN loaded
             ELSE LoadModelFiles(loaded.loader, model_path, i + 1,
                                 Append(models, [key |-> ModelFiles[i].key,
                                                 obj |-> loaded.outcome.value]))

load_models_for_ticker(l, ticker) ==
    LET model_path == get_model_path_for_ticker(l, ticker)
        loaded == LoadModelFiles(l, model_path, 1, <<>>)
        model_type ==
            IF model_path.prefix = "etfs" THEN "etf_specific"
            ELSE IF model_path.prefix = "stocks" /\ model_path.name = "universal"
                 THEN "stock_universal"
                 ELSE "unknown"
    IN  IF ~loaded.outcome.ok
        THEN loaded
        ELSE [loader |-> loaded.loader,
              outcome |-> Ok([ml_model |-> loaded.outcome.value[1].obj,
                              label_encoder |-> loaded.outcome.value[2].obj,
                              feature_names |-> loaded.outcome.value[3].obj,
                              metadata |-> loaded.outcome.value[4].obj,
                              ticker |-> ticker,
                              model_path |-> model_path,
                              model_type |-> model_type])]

clear_cache(l) == [l EXCEPT !.cache = <<>>]

get_cache_info(l) ==
    [cached_files |-> [i \in 1..Len(l.cache) |-> l.cache[i].path],
     cache_size |-> Len(l.cache),
     source |-> l.source]

\* What a call leaves in the log: the call, what it returned or raised, and
\* the cache keys and the number of source reads before and after it.
Logged(c, before, after, outcome) ==
    [call |-> c, ok |-> outcome.ok,
     value |-> IF outcome.ok THEN outcome.value ELSE outcome.error,
     cached_before |-> CachedPaths(before.cache),
     cached_after |-> CachedPaths(after.cache),
     reads_before |-> before.reads,
     reads_after |-> after.reads]

Tickers == {"SMH", "AAPL", "TSLA"}
ProductionDir(ticker) ==
    IF ticker = "SMH" THEN Dir("etfs", "SMH", "production")
    ELSE Dir("stocks", "universal", "production")

LoadFile ==
    /\ Len(history) < MaxHistory
    /\ \E file_path \in {Path(Dir("etfs", "SMH", "production"), f) :
                             f \in {"lightgbm_clean_model.pkl", "metadata.json",
                                    "notes.txt"}},
          use_cache \in BOOLEAN :
          LET c == [op |-> "load_file", file_path |-> file_path, use_cache |-> use_cache]
              r == load_file(loader, file_path, use_cache)
          IN  /\ loader' = r.loader
              /\ call' = c
              /\ result' = IF r.outcome.ok
                            THEN [kind |-> "object", value |-> r.outcome.value]
                            ELSE [kind |-> "error", value |-> r.outcome.error]
              /\ history' = Append(history, Logged(c, loader, r.loader, r.outcome))
    /\ UNCHANGED <<rm, option_chain, features, procs, ml_model, training_data>>

LoadModelsForTicker ==
    /\ Len(history) < MaxHistory
    /\ \E ticker \in Tickers :
          LET c == [op |-> "load_models_for_ticker", ticker |-> ticker]
              r == load_models_for_ticker(loader, ticker)
          IN  /\ loader' = r.loader
              /\ call' = c
              /\ result' = IF r.outcome.ok
                            THEN [kind |-> "models", value |-> r.outcome.value]
                            ELSE [kind |-> "error", value |-> r.outcome.error]
              /\ history' = Append(history, Logged(c, loader, r.loader, r.outcome))
    /\ UNCHANGED <<rm, option_chain, features, procs, ml_model, training_data>>

ClearCache ==
    /\ Len(history) < MaxHistory
    /\ LET c == [op |-> "clear_cache"]
       IN  /\ loader' = clear_cache(loader)
           /\ call' = c
           /\ result' = [kind |-> "none"]
           /\ history' = Append(history, Logged(c, loader, clear_cache(loader), Ok("None")))
    /\ UNCHANGED <<rm, option_chain, features, procs, ml_model, training_data>>

GetCacheInfo ==
    /\ Len(history) < MaxHistory
    /\ LET c == [op |-> "get_cache_info"]
       IN  /\ call' = c
           /\ result' = [kind |-> "cache_info", value |-> get_cache_info(loader)]
           /\ history' = Append(history, Logged(c, loader, loader, Ok(get_cache_info(loader))))
    /\ UNCHANGED <<rm, option_chain, features, procs, ml_model, training_data, loader>>

\* What the source holds: both model directories complete and a text file;
\* the same without the SMH metadata; nothing.
CompleteSource ==
    {Path(d, ModelFiles[i].file) :
        d \in {ProductionDir(t) : t \in Tickers}, i \in 1..Len(ModelFiles)}
    \cup {Path(Dir("etfs", "SMH", "production"), "notes.txt")}

ModelLoaderInit(source, files, asset_registry) ==
    [kind |-> "loader", source |-> source, environment |-> "production",
     asset_registry |-> asset_registry, files |-> files,
     cache |-> <<>>, reads |-> 0]

InitLoader ==
    /\ rm = DefaultRiskManager
    /\ option_chain = <<>>
    /\ features = EmptySnapshot
    /\ call = NoCall
    /\ result = NoResult
    /\ history = <<>>
    /\ procs = <<>>
    /\ ml_model = NoModel
    /\ training_data = <<>>
    \* The asset registry as loaded, or the empty one _load_asset_registry
    \* falls back to.
    /\ \E source \in {"local", "s3"},
          files \in {CompleteSource,
                     CompleteSource \ {Path(Dir("etfs", "SMH", "production"),
                                            "metadata.json")},
                     {}},
          asset_registry \in {[etfs |-> {"SMH"}, stocks |-> {"AAPL", "TSLA"}],
                              [etfs |-> {}, stocks |-> {}]} :
          loader = ModelLoaderInit(source, files, asset_registry)

NextLoader == LoadFile \/ LoadModelsForTicker \/ ClearCache \/ GetCacheInfo

SpecLoader == InitLoader /\ [][NextLoader]_vars

(***************************************************************************)
(* The two strike selectors called on their own, on any chain, and the     *)
(* strike found by delta looked up again by price.                         *)
(***************************************************************************)
\* Target deltas in hundredths, as the builders pass them: positive for
\* calls, negative for puts.
TargetDeltas == {-50, -30, 25, 50}
\* An expiration the chains quote and one they do not.
LookupDtes == {21, 30}

\* Chains in which two strikes are quoted with the same delta, the higher
\* strike listed first or second.
TieChains ==
    LET far == [strike |-> 110, type |-> "call", dte |-> 21,
                bid |-> 4, ask |-> 12, delta |-> 30]
    IN  {<<far, Contract("call", 105, 21), Contract("put", 95, 21)>>,
         <<Contract("call", 105, 21), far, Contract("put", 95, 21)>>}

StrikeResult(r) ==
    IF r.ok THEN [kind |-> "strike", value |-> r.value] ELSE Returned(r)

SelectByDelta ==
    /\ call = NoCall
    /\ \E option_type \in OptionTypes, target_delta \in TargetDeltas, dte \in LookupDtes :
          /\ call' = [op |-> "_find_strike_by_delta", option_type |-> option_type,
                      target |-> target_delta, dte |-> dte, requery |-> FALSE]
          /\ result' = StrikeResult(_find_strike_by_delta(option_chain, target_delta,
                                                          option_type, dte))
    /\ UNCHANGED <<rm, option_chain, features, history, procs, ml_model, training_data, loader>>

SelectByPrice ==
    /\ call = NoCall
    /\ \E option_type \in OptionTypes, dte \in LookupDtes,
          \* Target prices in dollars: two strikes and the midpoint 102.50.
          target_price \in {[num |-> 95, den |-> 1], [num |-> 100, den |-> 1],
                            [num |-> 205, den |-> 2]} :
          /\ call' = [op |-> "_find_strike_by_price", option_type |-> option_type,
                      target |-> target_price, dte |-> dte, requery |-> FALSE]
          /\ result' = StrikeResult(_find_strike_by_price(option_chain, target_price,
                                                          option_type, dte))
    /\ UNCHANGED <<rm, option_chain, features, history, procs, ml_model, training_data, loader>>

\* The strike just found by delta, looked up by price on the same chain,
\* option type and DTE.
RequeryByPrice ==
    /\ call.op = "_find_strike_by_delta"
    /\ result.kind = "strike"
    /\ LET target_price == [num |-> result.value, den |-> 1]
       IN  /\ call' = [op |-> "_find_strike_by_price", option_type |-> call.option_type,
                       target |-> target_price, dte |-> call.dte, requery |-> TRUE]
           /\ result' = StrikeResult(_find_strike_by_price(option_chain, target_price,
                                                           call.option_type, call.dte))
    /\ UNCHANGED <<rm, option_chain, features, history, procs, ml_model, training_data, loader>>

InitStrike ==
    /\ rm = DefaultRiskManager
    /\ option_chain \in Chains \cup ScenarioChains \cup TieChains
    /\ features = EmptySnapshot
    /\ call = NoCall
    /\ result = NoResult
    /\ history = <<>>
    /\ procs = <<>>
    /\ ml_model = NoModel
    /\ training_data = <<>>
    /\ loader = NoLoader

NextStrike == SelectByDelta \/ SelectByPrice \/ RequeryByPrice

SpecStrike == InitStrike /\ [][NextStrike]_vars

(***************************************************************************)
(* _select_optimal_dte and _classify_trend_strength called on their own.   *)
(***************************************************************************)
SelectOptimalDte ==
    /\ call = NoCall
    /\ \E strategy \in Strategies \cup UnknownLabels,
          iv_rank \in Points({30, 40, 50, 70}),
          trend_strength \in {"VERY_STRONG", "STRONG", "MODERATE", "WEAK"} :
          /\ call' = [op |-> "_select_optimal_dte", strategy |-> strategy,
                      iv_rank |-> iv_rank, trend_strength |-> trend_strength]
          /\ LET r == _select_optimal_dte(option_chain, strategy, iv_rank, trend_strength)
             IN  result' = IF r.ok THEN [kind |-> "dte", value |-> r.value]
                                   ELSE Returned(r)
    /\ UNCHANGED <<rm, option_chain, features, history, procs, ml_model, training_data, loader>>

InitDte ==
    /\ rm = DefaultRiskManager
    \* Chains of one call per expiration, the expirations in any order: 14 is
    \* midway between 7 and 21, and 30 midway between 21 and 39.
    /\ option_chain \in
          UNION {{[i \in 1..n |-> Contract("call", 100, dtes[i])] :
                     dtes \in {d \in [1..n -> {7, 14, 21, 30, 39, 45}] :
                                  \A i, j \in 1..n : i # j => d[i] # d[j]}} :
                 n \in 0..MaxChain}
    /\ features = EmptySnapshot
    /\ call = NoCall
    /\ result = NoResult
    /\ history = <<>>
    /\ procs = <<>>
    /\ ml_model = NoModel
    /\ training_data = <<>>
    /\ loader = NoLoader

NextDte == SelectOptimalDte

SpecDte == InitDte /\ [][NextDte]_vars

ClassifyTrendStrength ==
    /\ call = NoCall
    /\ call' = [op |-> "_classify_trend_strength"]
    /\ result' = [kind |-> "trend_strength", value |-> _classify_trend_strength(features)]
    /\ UNCHANGED <<rm, option_chain, features, history, procs, ml_model, training_data, loader>>

InitTrend ==
    /\ rm = DefaultRiskManager
    /\ option_chain = <<>>
    \* The snapshots the classification is run on: every threshold it
    \* compares with, the value 1/Res above it and the low end; and snapshots
    \* that lack some of the three keys it reads.
    /\ features \in
          {Snapshot(FeatureKeys, 0, adx, tr, rsi, 0) :
              adx \in Points({20, 25, 30}), tr \in TrendRegimes,
              rsi \in Points({35, 40, 60, 65})}
          \cup
          {Snapshot(FeatureKeys \ absent, 0, U(31), 4, U(66), 0) :
              absent \in SUBSET {"adx_14", "trend_regime", "rsi_14"}}
    /\ call = NoCall
    /\ result = NoResult
    /\ history = <<>>
    /\ procs = <<>>
    /\ ml_model = NoModel
    /\ training_data = <<>>
    /\ loader = NoLoader

NextTrend == ClassifyTrendStrength

SpecTrend == InitTrend /\ [][NextTrend]_vars


(***************************************************************************)
(* Properties                                                              *)
(***************************************************************************)

\* C1: for every RiskManager with account_size > 0, risk_per_trade in (0,1]
\* and max_contracts >= 1, and every max_loss_per_contract (positive, zero
\* or negative), calculate_position_size returns an integer n with
\* 1 <= n <= max_contracts.
C1_PositionSizeInRange ==
    call.op = "calculate_position_size" =>
        /\ result.value \in Int
        /\ 1 <= result.value
        /\ result.value <= rm.max_contracts

\* A call whose quotient exceeds max_contracts and is clamped to it.
C1_Witness ==
    /\ call.op = "calculate_position_size"
    /\ call.max_loss_per_contract > 0
    /\ rm.account_size * rm.risk_per_trade
          >= 100 * call.max_loss_per_contract * (rm.max_contracts + 1)
    /\ result.value = rm.max_contracts

\* C2: validate_trade approves exactly when |max_loss| / account_size <=
\* risk_per_trade and risk_reward_ratio > 0.5, the ratio being
\* max_profit / |max_loss| (0 when max_loss = 0): a ratio of exactly 0.5 is
\* rejected, a risk percentage equal to risk_per_trade is accepted, and
\* (-300, 100) on a 10000 account at 2% is rejected with ratio 1/3.
C2_ApprovalGate ==
    call.op = "validate_trade" =>
        LET loss == Abs(call.max_loss)
            within == loss * 100 <= rm.risk_per_trade * rm.account_size
            rewarding == call.max_loss # 0 /\ 2 * call.max_profit > loss
        IN  /\ result.value.approved = (within /\ rewarding)
            /\ (call.max_loss = -300 /\ call.max_profit = 100
                    /\ rm.account_size = 10000 /\ rm.risk_per_trade = 2)
                => /\ ~result.value.approved
                   /\ 3 * result.value.risk_reward_ratio.num
                        = result.value.risk_reward_ratio.den

\* Both boundaries at once: the risk percentage equals risk_per_trade (that
\* half passes) and the ratio is exactly 0.5 (rejected).
C2_Witness ==
    /\ call.op = "validate_trade"
    /\ call.max_loss # 0
    /\ Abs(call.max_loss) * 100 = rm.risk_per_trade * rm.account_size
    /\ 2 * call.max_profit = Abs(call.max_loss)
    /\ ~result.value.approved

\* C3: select_strategy_from_features is total: it returns one of the ten
\* strategy labels, never None or another value, so label creation never
\* takes its 'strategy is None' or its 'unknown strategy' branch.
C3_SelectorTotal ==
    /\ call.op = "select_strategy_from_features" => result.value \in Strategies
    /\ call.op = "create_labels" =>
          /\ result.value.strategy \in Strategies
          /\ result.value.branch \notin {"skip_no_strategy", "skip_unknown_strategy"}

\* Label creation on a snapshot that only the last branch of the fallback
\* cascade labels (medium IV, so that rule 2 cannot give IRON_CONDOR).
C3_Witness ==
    /\ call.op = "create_labels"
    /\ features.present = FeatureKeys
    /\ U(35) <= features.val.iv_rank /\ features.val.iv_rank <= U(52)
    /\ result.value.strategy = "IRON_CONDOR"
    /\ result.value.branch = "generate_iron_condor_params"

\* The rule list of the specification, in its order: (predicate, label).
C4_Rules(iv, adx, tr, rsi, pvs) ==
    << [label |-> "DIAGONAL_SPREAD",
        holds |-> U(45) < iv /\ iv < U(60) /\ tr = 2
                    /\ 5 < Abs(pvs) /\ Abs(pvs) < 12 /\ adx < U(15)],
       [label |-> "IRON_CONDOR",
        holds |-> U(52) < iv /\ iv < U(75) /\ adx < U(25)
                    /\ U(45) < rsi /\ rsi < U(55)],
       [label |-> "IRON_BUTTERFLY", holds |-> iv > U(68) /\ adx < U(20)],
       [label |-> "LONG_CALL",
        holds |-> iv < U(46) /\ adx > U(21) /\ tr >= 3 /\ rsi > U(54)],
       [label |-> "LONG_PUT",
        holds |-> iv < U(48) /\ adx > U(20) /\ (tr <= 1 \/ rsi < U(42) \/ pvs < -25)],
       [label |-> "LONG_PUT",
        holds |-> iv < U(48) /\ adx >= U(15) /\ (rsi < U(38) \/ pvs < -35)],
       [label |-> "LONG_PUT", holds |-> iv < U(48) /\ rsi < U(33)],
       [label |-> "BULL_CALL_SPREAD",
        holds |-> U(56) <= iv /\ iv <= U(63) /\ tr >= 3 /\ adx > U(26) /\ rsi > U(62)],
       [label |-> "BEAR_PUT_SPREAD",
        holds |-> U(54) <= iv /\ iv <= U(65) /\ tr <= 1 /\ adx > U(22) /\ rsi < U(45)],
       [label |-> "LONG_STRADDLE",
        holds |-> iv < U(35) /\ U(45) < rsi /\ rsi < U(58) /\ adx < U(17)],
       [label |-> "LONG_STRANGLE",
        holds |-> iv < U(36) /\ U(44) < rsi /\ rsi < U(59) /\ adx < U(25)],
       [label |-> "CALENDAR_SPREAD",
        holds |-> iv < U(42) /\ adx < U(20) /\ U(42) < rsi /\ rsi < U(58)
                    /\ Abs(pvs) < 22],
       [label |-> "IRON_CONDOR", holds |-> iv > U(55)],
       [label |-> "LONG_CALL", holds |-> iv < U(35) /\ rsi >= U(50)],
       [label |-> "LONG_PUT", holds |-> iv < U(35)],
       [label |-> "BULL_CALL_SPREAD", holds |-> rsi > U(58) /\ adx > U(18)],
       [label |-> "BEAR_PUT_SPREAD", holds |-> rsi < U(42) /\ adx > U(18)],
       [label |-> "IRON_CONDOR", holds |-> TRUE] >>

C4_FirstMatch(rules) ==
    rules[CHOOSE i \in 1..Len(rules) :
             rules[i].holds /\ \A j \in 1..(i - 1) : ~rules[j].holds].label

C5_StrikeKeys(label) ==
    CASE label \in {"LONG_CALL", "LONG_PUT", "LONG_STRADDLE", "CALENDAR_SPREAD"} ->
            {"strike"}
      [] label \in {"BULL_CALL_SPREAD", "BEAR_PUT_SPREAD", "DIAGONAL_SPREAD"} ->
            {"long_strike", "short_strike"}
      [] label = "LONG_STRANGLE" -> {"call_strike", "put_strike"}
      [] label = "IRON_CONDOR" ->
            {"put_short_strike", "put_long_strike",
             "call_short_strike", "call_long_strike"}
      [] label = "IRON_BUTTERFLY" ->
            {"center_strike", "long_put_strike", "long_call_strike"}

C5_DteKeys(label) ==
    IF label \in {"CALENDAR_SPREAD", "DIAGONAL_SPREAD"}
    THEN {"near_dte", "far_dte"}
    ELSE {"dte"}

C5_CostKeys(label) ==
    CASE label \in {"LONG_CALL", "LONG_PUT", "LONG_STRADDLE", "LONG_STRANGLE"} ->
            {"cost_per_contract", "total_cost"}
      [] label \in {"IRON_CONDOR", "IRON_BUTTERFLY"} -> {"net_credit", "total_credit"}
      [] OTHER -> {"net_debit", "total_debit"}

C5_BreakevenKeys(label) ==
    IF label \in {"LONG_STRADDLE", "LONG_STRANGLE", "IRON_CONDOR", "IRON_BUTTERFLY"}
    THEN {"breakeven_up", "breakeven_down"}
    ELSE {"breakeven"}

\* The defined error kinds: unsupported strategy, no matching contract (a
\* chain without rows raises it from the selection of the expiration),
\* contract not found, missing feature.
C5_DefinedErrors ==
    {"Unknown strategy", "No options available", "min() arg is an empty sequence",
     "Option not found", "Missing feature"}

C5_Complete(label, p, breakeven_keys) ==
    /\ (C5_StrikeKeys(label) \cup C5_DteKeys(label) \cup C5_CostKeys(label)
          \cup {"contracts", "max_loss", "max_profit"} \cup breakeven_keys)
            \subseteq DOMAIN p
    /\ p.contracts \in 1..rm.max_contracts

C6_Dispatch ==
    call.op = "generate" =>
        IF call.strategy \in Strategies
        THEN /\ result.kind = "trade" => result.value.strategy = call.strategy
             /\ result.kind = "error" => result.value.error # "Unknown strategy"
        ELSE result.kind = "error" /\ result.value.error = "Unknown strategy"

C6_Witness ==
    /\ call.op = "generate"
    /\ call.strategy = "LONG_PUT"
    /\ result.kind = "trade"
    /\ result.value.strategy = "LONG_PUT"
    /\ result.value.option_type = "PUT"

\* The legs of a returned trade: the contract (strike, type, dte) and the
\* price read from it (the ask of a bought leg, the bid of a sold one).
C7_Leg(strike, option_type, dte, price) ==
    [strike |-> strike, type |-> option_type, dte |-> dte, price |-> price]

C7_Legs(p) ==
    CASE p.strategy = "LONG_CALL" -> <<C7_Leg(p.strike, "call", p.dte, "ask")>>
      [] p.strategy = "LONG_PUT" -> <<C7_Leg(p.strike, "put", p.dte, "ask")>>
      [] p.strategy = "BULL_CALL_SPREAD" ->
            <<C7_Leg(p.long_strike, "call", p.dte, "ask"),
              C7_Leg(p.short_strike, "call", p.dte, "bid")>>
      [] p.strategy = "BEAR_PUT_SPREAD" ->
            <<C7_Leg(p.long_strike, "put", p.dte, "ask"),
              C7_Leg(p.short_strike, "put", p.dte, "bid")>>
      [] p.strategy = "LONG_STRADDLE" ->
            <<C7_Leg(p.strike, "call", p.dte, "ask"),
              C7_Leg(p.strike, "put", p.dte, "ask")>>
      [] p.strategy = "LONG_STRANGLE" ->
            <<C7_Leg(p.call_strike, "call", p.dte, "ask"),
              C7_Leg(p.put_strike, "put", p.dte, "ask")>>
      [] p.strategy = "IRON_CONDOR" ->
            <<C7_Leg(p.put_short_strike, "put", p.dte, "bid"),
              C7_Leg(p.put_long_strike, "put", p.dte, "ask"),
              C7_Leg(p.call_short_strike, "call", p.dte, "bid"),
              C7_Leg(p.call_long_strike, "call", p.dte, "ask")>>
      [] p.strategy = "IRON_BUTTERFLY" ->
            <<C7_Leg(p.center_strike, "put", p.dte, "bid"),
              C7_Leg(p.center_strike, "call", p.dte, "bid"),
              C7_Leg(p.long_put_strike, "put", p.dte, "ask"),
              C7_Leg(p.long_call_strike, "call", p.dte, "ask")>>
      [] p.strategy = "CALENDAR_SPREAD" ->
            LET t == IF p.option_type = "CALL" THEN "call" ELSE "put"
            IN  <<C7_Leg(p.strike, t, p.near_dte, "bid"),
                  C7_Leg(p.strike, t, p.far_dte, "ask")>>
      [] p.strategy = "DIAGONAL_SPREAD" ->
            LET t == IF p.option_type = "CALL" THEN "call" ELSE "put"
            IN  <<C7_Leg(p.long_strike, t, p.far_dte, "ask"),
                  C7_Leg(p.short_strike, t, p.near_dte, "bid")>>

C7_InChain(strike, option_type, dte) ==
    \E i \in 1..Len(option_chain) :
        /\ option_chain[i].strike = strike
        /\ option_chain[i].type = option_type
        /\ option_chain[i].dte = dte

\* What the leg costs (+ask) or brings in (-bid), read from the first row
\* of the chain that is its contract.
C7_LegDebit(leg) ==
    LET i == CHOOSE k \in 1..Len(option_chain) :
                 /\ option_chain[k].strike = leg.strike
                 /\ option_chain[k].type = leg.type
                 /\ option_chain[k].dte = leg.dte
                 /\ \A j \in 1..(k - 1) :
                        ~(/\ option_chain[j].strike = leg.strike
                          /\ option_chain[j].type = leg.type
                          /\ option_chain[j].dte = leg.dte)
    IN  IF leg.price = "ask" THEN option_chain[i].ask ELSE -option_chain[i].bid

RECURSIVE C7_NetDebit(_)
C7_NetDebit(legs) ==
    IF legs = <<>> THEN 0 ELSE C7_LegDebit(Head(legs)) + C7_NetDebit(Tail(legs))

\* The per-contract net debit the record reports.
C7_RecordedDebit(p) ==
    CASE "net_debit" \in DOMAIN p -> p.net_debit
      [] "net_credit" \in DOMAIN p -> -p.net_credit
      [] OTHER -> p.cost_per_contract

\* C7: every leg of a returned trade is a contract of the chain and the
\* trade is priced from those contracts; a contract-not-found error names a
\* contract the chain does not hold; and a calendar or diagonal spread on a
\* chain with no expiration more than 14 days after the near one (far DTE
\* defaults to near_dte + 30) raises instead of returning a trade.
C7_LegsFromChain ==
    call.op = "generate" =>
        /\ result.kind = "trade" =>
              LET legs == C7_Legs(result.value)
              IN  /\ \A k \in 1..Len(legs) :
                        C7_InChain(legs[k].strike, legs[k].type, legs[k].dte)
                  /\ C7_NetDebit(legs) = C7_RecordedDebit(result.value)
        /\ (result.kind = "error" /\ result.value.error = "Option not found") =>
              ~C7_InChain(result.value.strike, result.value.option_type,
                          result.value.dte)
        /\ (/\ call.strategy \in {"CALENDAR_SPREAD", "DIAGONAL_SPREAD"}
            /\ option_chain # <<>>
            /\ \A d \in AvailableDtes(option_chain) :
                   d <= NearDte(AvailableDtes(option_chain)) + 14) =>
              /\ result.kind = "error"
              /\ result.value.error \in {"Option not found", "No options available"}

\* A calendar spread whose far leg, at the default near_dte + 30, is not in
\* the chain: contract not found.
C7_Witness ==
    /\ call.op = "generate"
    /\ call.strategy = "CALENDAR_SPREAD"
    /\ result.kind = "error"
    /\ result.value.error = "Option not found"
    /\ result.value.dte \notin AvailableDtes(option_chain)
    /\ result.value.dte = NearDte(AvailableDtes(option_chain)) + 30

\* C8 as claimed: on a snapshot that lacks one of the keys iv_rank, adx_14,
\* rsi_14, trend_regime, price_vs_sma_20, select_strategy_from_features and
\* ParameterGenerator.generate fail with a missing-feature error and return
\* no label and no trade computed from a default.
C8_MissingFeatureRaises ==
    (/\ call.op \in {"select_strategy_from_features", "generate"}
     /\ features.present # FeatureKeys) =>
        /\ result.kind = "error"
        /\ result.value.error = "Missing feature"

\* C9 as claimed: for each of the ten labels, when parameter generation
\* succeeds, generate_parameters completes without raising and attaches a
\* risk validation whose 'approved' is a boolean.
C9_OrchestratorCompletes ==
    (/\ call.op = "generate_parameters"
     /\ call.strategy \in Strategies
     /\ generate(rm, call.strategy, option_chain, features).ok) =>
        /\ result.kind = "trade"
        /\ "risk_validation" \in DOMAIN result.value
        /\ result.value.risk_validation.approved \in BOOLEAN

\* C10: calculate_position_size(m) is 1 when m <= 0 and otherwise
\* clamp(floor(account_size * risk_per_trade / m), 1, max_contracts); with
\* account_size = 10000, risk_per_trade = 0.02 and m = 150 it is 1.
C10_PositionSizeFormula ==
    call.op = "calculate_position_size" =>
        LET m == 100 * call.max_loss_per_contract
            budget == rm.account_size * rm.risk_per_trade
            n == result.value
        IN  /\ call.max_loss_per_contract <= 0 => n = 1
            /\ call.max_loss_per_contract > 0 =>
                  \/ n = 1 /\ budget < 2 * m
                  \/ n = rm.max_contracts /\ budget >= rm.max_contracts * m
                  \/ /\ 1 <= n /\ n <= rm.max_contracts
                     /\ n * m <= budget /\ budget < (n + 1) * m
            /\ (rm.account_size = 10000 /\ rm.risk_per_trade = 2
                    /\ call.max_loss_per_contract = 150) => n = 1

\* The scenario: 10000 at 2%, 150 per contract, one contract.
C10_Witness ==
    /\ call.op = "calculate_position_size"
    /\ rm.account_size = 10000 /\ rm.risk_per_trade = 2 /\ rm.max_contracts = 10
    /\ call.max_loss_per_contract = 150
    /\ result.value = 1

\* C11: validate_trade with max_loss = 0 returns normally, with
\* risk_reward_ratio = 0 and risk_percentage = 0, whatever max_profit is, and
\* the trade is not approved.
C11_ZeroLossNotApproved ==
    (call.op = "validate_trade" /\ call.max_loss = 0) =>
        /\ result.kind = "validation"
        /\ result.value.risk_reward_ratio.num = 0
        /\ result.value.risk_reward_ratio.den > 0
        /\ result.value.risk_percentage.num = 0
        /\ result.value.risk_percentage.den > 0
        /\ ~result.value.approved

\* A zero max_loss with a positive max_profit, validated and rejected.
C11_Witness ==
    /\ call.op = "validate_trade"
    /\ call.max_loss = 0
    /\ call.max_profit > 0
    /\ result.kind = "validation"
    /\ ~result.value.approved

\* The chain holds the contract (strike, type, dte).
C12_Listed(strike, option_type, dte) ==
    \E k \in 1..Len(option_chain) :
        /\ option_chain[k].strike = strike
        /\ option_chain[k].type = option_type
        /\ option_chain[k].dte = dte

\* The first row of the chain that is the contract (strike, type, dte).
C12_Quote(strike, option_type, dte) ==
    option_chain[CHOOSE k \in 1..Len(option_chain) :
                    /\ option_chain[k].strike = strike
                    /\ option_chain[k].type = option_type
                    /\ option_chain[k].dte = dte
                    /\ \A j \in 1..(k - 1) :
                           ~(/\ option_chain[j].strike = strike
                             /\ option_chain[j].type = option_type
                             /\ option_chain[j].dte = dte)]

C12_Vertical(p, option_type, width, sign) ==
    LET long_ask == C12_Quote(p.long_strike, option_type, p.dte).ask
        short_bid == C12_Quote(p.short_strike, option_type, p.dte).bid
    IN  /\ C12_Listed(p.long_strike, option_type, p.dte)
        /\ C12_Listed(p.short_strike, option_type, p.dte)
        /\ p.net_debit = long_ask - short_bid
        /\ p.max_loss = p.net_debit
        /\ p.max_profit.type = "float"
        /\ p.max_profit.num = 100 * width - p.net_debit
        /\ p.max_profit.num + p.max_loss = 100 * width
        /\ p.breakeven = 100 * p.long_strike + sign * p.net_debit
        /\ p.total_debit = p.net_debit * p.contracts
        /\ p.total_max_profit.type = "float"
        /\ p.total_max_profit.num = p.max_profit.num * p.contracts

\* C12: for every Bull Call Spread / Bear Put Spread returned by generate,
\* net_debit = (long-leg ask - short-leg bid) * 100, max_loss = net_debit,
\* max_profit = strike width * 100 - net_debit (width = short - long for the
\* bull call, long - short for the bear put), breakeven = long_strike +
\* net_debit/100 (bull call) or long_strike - net_debit/100 (bear put), and
\* the totals are the per-contract values times contracts; with strikes 100
\* and 110 and net_debit 400, max_profit is 600 and breakeven 104.
C12_VerticalSpreadPayoff ==
    (call.op = "generate" /\ result.kind = "trade") =>
        LET p == result.value
        IN  /\ p.strategy = "BULL_CALL_SPREAD" =>
                  /\ C12_Vertical(p, "call", p.short_strike - p.long_strike, 1)
                  /\ (p.long_strike = 100 /\ p.short_strike = 110
                          /\ p.net_debit = 400) =>
                        p.max_profit.num = 600 /\ p.breakeven = 10400
            /\ p.strategy = "BEAR_PUT_SPREAD" =>
                  C12_Vertical(p, "put", p.long_strike - p.short_strike, -1)

\* The bull call spread of the scenario: 100 / 110 for a net debit of 400.
C12_Witness ==
    /\ call.op = "generate"
    /\ result.kind = "trade"
    /\ result.value.strategy = "BULL_CALL_SPREAD"
    /\ result.value.long_strike = 100
    /\ result.value.short_strike = 110
    /\ result.value.net_debit = 400
    /\ result.value.max_profit = Num(600)
    /\ result.value.breakeven = 10400

C13_Credit(p, short_put, short_call, long_put, long_call) ==
    LET net_credit == C12_Quote(short_put, "put", p.dte).bid
                        + C12_Quote(short_call, "call", p.dte).bid
                        - C12_Quote(long_put, "put", p.dte).ask
                        - C12_Quote(long_call, "call", p.dte).ask
        put_distance == Abs(short_put - long_put)
        call_distance == Abs(long_call - short_call)
        wing_width == IF put_distance >= call_distance
                      THEN put_distance ELSE call_distance
    IN  /\ C12_Listed(short_put, "put", p.dte)
        /\ C12_Listed(short_call, "call", p.dte)
        /\ C12_Listed(long_put, "put", p.dte)
        /\ C12_Listed(long_call, "call", p.dte)
        /\ p.net_credit = net_credit
        /\ p.max_profit.type = "float"
        /\ p.max_profit.num = net_credit
        /\ p.max_loss = 100 * wing_width - net_credit
        /\ p.breakeven_down = 100 * short_put - net_credit
        /\ p.breakeven_up = 100 * short_call + net_credit
        /\ p.total_credit = net_credit * p.contracts
        /\ p.total_max_profit.type = "float"
        /\ p.total_max_profit.num = net_credit * p.contracts
        /\ p.total_max_loss = p.max_loss * p.contracts

C14_PositionSize(m) ==
    IF m <= 0 THEN 1
    ELSE LET n == (rm.account_size * rm.risk_per_trade) \div (100 * m)
         IN  IF n < 1 THEN 1 ELSE IF n > rm.max_contracts THEN rm.max_contracts ELSE n

C14_Long(p, option_type, sign) ==
    LET ask == C12_Quote(p.strike, option_type, p.dte).ask
    IN  /\ C12_Listed(p.strike, option_type, p.dte)
        /\ p.cost_per_contract = ask
        /\ p.contracts = C14_PositionSize(ask)
        /\ p.total_cost = ask * p.contracts
        /\ p.max_loss = p.total_cost
        /\ p.max_profit.type = "str"
        /\ p.max_profit.str = "Unlimited"
        /\ p.breakeven = 100 * p.strike + sign * ask

\* C14: for every Long Call / Long Put returned by generate, contracts =
\* calculate_position_size(ask * 100), max_loss = total_cost = ask * 100 *
\* contracts, max_profit is the non-numeric sentinel 'Unlimited', and
\* breakeven = strike + ask for a call and strike - ask for a put, the ask
\* being that of the selected (strike, type, DTE) contract.
C14_LongOptionPayoff ==
    (call.op = "generate" /\ result.kind = "trade") =>
        LET p == result.value
        IN  /\ p.strategy = "LONG_CALL" => C14_Long(p, "call", 1)
            /\ p.strategy = "LONG_PUT" => C14_Long(p, "put", -1)

\* A long put bought in more than one contract, below the cap.
C14_Witness ==
    /\ call.op = "generate"
    /\ result.kind = "trade"
    /\ result.value.strategy = "LONG_PUT"
    /\ result.value.contracts > 1
    /\ result.value.contracts < rm.max_contracts
    /\ result.value.max_loss = result.value.cost_per_contract * result.value.contracts
    /\ result.value.breakeven < 100 * result.value.strike

C15_LongVolatility(p, call_strike, put_strike) ==
    LET premium == C12_Quote(call_strike, "call", p.dte).ask
                     + C12_Quote(put_strike, "put", p.dte).ask
    IN  /\ C12_Listed(call_strike, "call", p.dte)
        /\ C12_Listed(put_strike, "put", p.dte)
        /\ p.cost_per_contract = premium
        /\ p.total_cost = premium * p.contracts
        /\ p.max_loss = p.total_cost
        /\ p.max_profit.type = "str"
        /\ p.max_profit.str = "Unlimited"
        /\ p.breakeven_up = 100 * call_strike + premium
        /\ p.breakeven_down = 100 * put_strike - premium

\* C15: for every Long Straddle / Long Strangle returned by generate,
\* cost_per_contract = (call ask + put ask) * 100, max_loss = total_cost =
\* cost_per_contract * contracts, max_profit = 'Unlimited', breakeven_up =
\* call strike + (call ask + put ask) and breakeven_down = put strike -
\* (call ask + put ask); the straddle prices its call and its put at one and
\* the same strike.
C15_StraddleStranglePayoff ==
    (call.op = "generate" /\ result.kind = "trade") =>
        LET p == result.value
        IN  /\ p.strategy = "LONG_STRADDLE" =>
                  C15_LongVolatility(p, p.strike, p.strike)
            /\ p.strategy = "LONG_STRANGLE" =>
                  C15_LongVolatility(p, p.call_strike, p.put_strike)

\* A straddle on a chain that holds another expiration of its call.
C15_Witness ==
    /\ call.op = "generate"
    /\ result.kind = "trade"
    /\ result.value.strategy = "LONG_STRADDLE"
    /\ \E i \in 1..Len(option_chain) :
          /\ option_chain[i].strike = result.value.strike
          /\ option_chain[i].type = "call"
          /\ option_chain[i].dte # result.value.dte
    /\ result.value.breakeven_up - result.value.breakeven_down
          = 2 * result.value.cost_per_contract

C16_TimeSpread(p, long_strike, short_strike) ==
    LET option_type == IF p.option_type = "CALL" THEN "call" ELSE "put"
        far_ask == C12_Quote(long_strike, option_type, p.far_dte).ask
        near_bid == C12_Quote(short_strike, option_type, p.near_dte).bid
    IN  /\ C12_Listed(long_strike, option_type, p.far_dte)
        /\ C12_Listed(short_strike, option_type, p.near_dte)
        /\ p.net_debit = far_ask - near_bid
        /\ p.max_loss = p.net_debit
        /\ p.total_max_loss = p.net_debit * p.contracts
        /\ p.max_profit.type = "str"
        /\ p.max_profit.str \in {"Variable (depends on IV expansion)",
                                 "Variable (depends on price movement and IV)"}
        /\ p.far_dte > p.near_dte + 14
        /\ \E i, j \in 1..Len(option_chain) :
              option_chain[i].dte = p.near_dte /\ option_chain[j].dte = p.far_dte

\* C16: for every Calendar / Diagonal Spread returned by generate, net_debit
\* = (far-leg ask - near-leg bid) * 100, max_loss = net_debit, total_max_loss
\* = net_debit * contracts, max_profit is a non-numeric 'Variable ...' value,
\* and far_dte > near_dte + 14 with both DTEs taken from the chain.
C16_TimeSpreadPayoff ==
    (call.op = "generate" /\ result.kind = "trade") =>
        LET p == result.value
        IN  /\ p.strategy = "CALENDAR_SPREAD" => C16_TimeSpread(p, p.strike, p.strike)
            /\ p.strategy = "DIAGONAL_SPREAD" =>
                  C16_TimeSpread(p, p.long_strike, p.short_strike)

\* A calendar spread that passes over an expiration 9 days after the near
\* one and takes the one 24 days after it.
C16_Witness ==
    /\ call.op = "generate"
    /\ result.kind = "trade"
    /\ result.value.strategy = "CALENDAR_SPREAD"
    /\ \E i \in 1..Len(option_chain) :
          /\ option_chain[i].dte > result.value.near_dte
          /\ option_chain[i].dte <= result.value.near_dte + 14
    /\ result.value.far_dte = 45
    /\ result.value.near_dte = 21

\* One snapshot <<iv_rank, adx_14, trend_regime, rsi_14, price_vs_sma_20>>
\* for each rule of the cascade, in the order of C4_Rules.
C17_Snapshots ==
    << <<U(46), 0, 2, U(50), 8>>,
       <<U(54), 0, 2, U(50), 0>>,
       <<U(75), 0, 2, U(50), 0>>,
       <<0, U(22), 4, U(55), 0>>,
       <<0, U(21), 0, U(50), 0>>,
       <<U(46), U(15), 2, U(33), 0>>,
       <<U(46), 0, 2, 0, 0>>,
       <<U(56), U(26) + 1, 4, U(62) + 1, 0>>,
       <<U(54), U(25), 0, U(44), 0>>,
       <<0, 0, 2, U(50), 0>>,
       <<0, U(17), 2, U(50), 0>>,
       <<U(36), 0, 2, U(50), 0>>,
       <<U(60), U(26), 2, U(62), 0>>,
       <<0, 0, 2, U(62), 0>>,
       <<0, 0, 2, U(38), 0>>,
       <<U(52), U(20), 2, U(59), 0>>,
       <<U(52), U(20), 2, U(38), 0>>,
       <<U(52), U(26), 2, U(50), 0>> >>

C17_InDomain(s) ==
    /\ 0 <= s[1] /\ s[1] <= U(100)
    /\ 0 <= s[2]
    /\ s[3] \in 0..4
    /\ 0 <= s[4] /\ s[4] <= U(100)
    /\ -200 <= s[5] /\ s[5] <= 200

\* Rule i is the first rule that snapshot s matches, and the selector gives
\* s the label of rule i.
C17_Reaches(i, s) ==
    LET rules == C4_Rules(s[1], s[2], s[3], s[4], s[5])
    IN  /\ C17_InDomain(s)
        /\ rules[i].holds
        /\ \A j \in 1..(i - 1) : ~rules[j].holds
        /\ select_strategy_from_features(
               Snapshot(FeatureKeys, s[1], s[2], s[3], s[4], s[5])) = rules[i].label

C17_AsFeatures(s) == Snapshot(FeatureKeys, s[1], s[2], s[3], s[4], s[5])

\* C17: each of the ten labels is reachable, and no rule of the cascade is
\* completely shadowed by the rules checked before it.  Where the selector
\* is given one of the snapshots of C17_Snapshots: every rule has, in that
\* list, a snapshot of the input domain whose first matching rule it is and
\* that the selector labels with it; the labels so returned are all ten;
\* and the call on the given snapshot has returned its rule's label.
C17_EveryLabelReachable ==
    \A i \in 1..Len(C17_Snapshots) :
        features = C17_AsFeatures(C17_Snapshots[i]) =>
            /\ Len(C17_Snapshots) = Len(C4_Rules(0, 0, 0, 0, 0))
            /\ \A j \in 1..Len(C17_Snapshots) : C17_Reaches(j, C17_Snapshots[j])
            /\ \A label \in Strategies :
                  \E j \in 1..Len(C17_Snapshots) :
                      select_strategy_from_features(
                          C17_AsFeatures(C17_Snapshots[j])) = label
            /\ call.op = "select_strategy_from_features" =>
                  result.value = C4_Rules(0, 0, 0, 0, 0)[i].label

\* The selector has labelled the snapshot of the last specific rule,
\* Calendar Spread.
C17_Witness ==
    /\ call.op = "select_strategy_from_features"
    /\ features = Snapshot(FeatureKeys, C17_Snapshots[12][1], C17_Snapshots[12][2],
                           C17_Snapshots[12][3], C17_Snapshots[12][4],
                           C17_Snapshots[12][5])
    /\ result.value = "CALENDAR_SPREAD"

C21_Holds(k, v) == k \in features.present /\ features.val[k] = v

C21_Scenarios ==
    call.op = "select_strategy_from_features" =>
        /\ (/\ C21_Holds("iv_rank", U(60))
            /\ C21_Holds("adx_14", U(15))
            /\ C21_Holds("rsi_14", U(50)))
           => result.value = "IRON_CONDOR"
        /\ (/\ C21_Holds("iv_rank", U(30))
            /\ C21_Holds("adx_14", U(25))
            /\ C21_Holds("trend_regime", 4)
            /\ C21_Holds("rsi_14", U(60)))
           => result.value = "LONG_CALL"

\* Scenario 2 on a snapshot whose price is far below its average (the Long
\* Put rule's third signal), still given LONG_CALL.
C21_Witness ==
    /\ call.op = "select_strategy_from_features"
    /\ C21_Holds("iv_rank", U(30))
    /\ C21_Holds("adx_14", U(25))
    /\ C21_Holds("trend_regime", 4)
    /\ C21_Holds("rsi_14", U(60))
    /\ C21_Holds("price_vs_sma_20", -36)
    /\ result.value = "LONG_CALL"

(***************************************************************************)
(* C22.  For a probability vector over at least three classes,             *)
(* predict_strategy lists as alternatives three distinct labels: those of  *)
(* three classes of highest probability (no class left out has a higher    *)
(* probability than a class listed), in non-increasing order of            *)
(* probability, each label and probability read at the class's own index   *)
(* of the label table and of the vector; the confidence is the vector's    *)
(* entry at the predicted class, whose label is the strategy.              *)
(***************************************************************************)
C22_IsClass(entry, idx) ==
    /\ entry.strategy = ml_model.classes[idx + 1]
    /\ entry.confidence = ml_model.probabilities[idx + 1]

C22_TopThree ==
    (call.op = "predict_strategy" /\ Len(ml_model.probabilities) >= 3) =>
        LET p == ml_model.probabilities
            n == Len(p)
            alternatives == result.value.alternatives
        IN  /\ Len(alternatives) = 3
            /\ \A i, j \in 1..3 :
                  i # j => alternatives[i].strategy # alternatives[j].strategy
            /\ \E a, b, c \in 0..(n - 1) :
                  /\ a # b /\ b # c /\ a # c
                  /\ C22_IsClass(alternatives[1], a)
                  /\ C22_IsClass(alternatives[2], b)
                  /\ C22_IsClass(alternatives[3], c)
                  /\ p[a + 1] >= p[b + 1] /\ p[b + 1] >= p[c + 1]
                  /\ \A other \in (0..(n - 1)) \ {a, b, c} :
                        p[other + 1] <= p[c + 1]
            /\ result.value.strategy = ml_model.classes[ml_model.prediction + 1]
            /\ result.value.confidence = p[ml_model.prediction + 1]

\* Four classes, the first and the last alternative of different
\* probability, the class left out tied with the last one listed.
C22_Witness ==
    /\ call.op = "predict_strategy"
    /\ ml_model.probabilities = <<1, 2, 0, 1>>
    /\ result.value.alternatives[1].strategy = result.value.strategy
    /\ result.value.alternatives[1].confidence = 2
    /\ result.value.alternatives[3].confidence = 1

(***************************************************************************)
(* C23.  For every non-empty batch of labels, is_valid is True exactly     *)
(* when each of the ten strategies' percentage lies in its band (bounds    *)
(* included); otherwise the failures hold one FAIL entry per out-of-band   *)
(* strategy; and every one of the ten strategies that does not occur is    *)
(* named in a 'Missing strategies' entry.                                  *)
(***************************************************************************)
C23_Count(strategy) ==
    Cardinality({i \in 1..Len(training_data) : training_data[i] = strategy})

C23_InBand(r) ==
    /\ 100 * C23_Count(r.strategy) >= r.min_pct * Len(training_data)
    /\ 100 * C23_Count(r.strategy) <= r.max_pct * Len(training_data)

C23_Bands == {expected_ranges[i] : i \in 1..Len(expected_ranges)}

C23_Entries(failures) == {failures[i] : i \in 1..Len(failures)}

C23_DistributionValidation ==
    (call.op = "validate_strategy_distribution" /\ Len(training_data) > 0) =>
        LET failures == result.value.failures
            banded == {i \in 1..Len(failures) : "strategy" \in DOMAIN failures[i]}
            named == {i \in 1..Len(failures) : "issue" \in DOMAIN failures[i]}
        IN  /\ result.value.is_valid <=> \A r \in C23_Bands : C23_InBand(r)
            /\ \A r \in C23_Bands :
                  Cardinality({i \in banded : /\ failures[i].strategy = r.strategy
                                               /\ failures[i].status = "FAIL"})
                      = IF C23_InBand(r) THEN 0 ELSE 1
            /\ \A r \in C23_Bands :
                  C23_Count(r.strategy) = 0 =>
                      \E i \in named :
                          /\ failures[i].issue = "Missing strategies"
                          /\ r.strategy \in failures[i].missing

(***************************************************************************)
(* C24.  ModelLoader caching.  Once load_file(path) with use_cache=True    *)
(* has succeeded, every later load_file(path, use_cache=True) before a     *)
(* clear_cache returns the very same object and reads nothing from the     *)
(* source; two load_models_for_ticker calls for one ticker give the same   *)
(* ml_model object; a load_file that raises leaves the cache keys as they  *)
(* were; clear_cache leaves the cache empty and the load_file that follows *)
(* it reads the source.                                                    *)
(***************************************************************************)
C24_NoClearBetween(i, j) ==
    \A k \in (i + 1)..(j - 1) : history[k].call.op # "clear_cache"

C24_Caching ==
    /\ \A i, j \in 1..Len(history) :
          (/\ i < j
           /\ history[i].call.op = "load_file"
           /\ history[i].call.use_cache
           /\ history[i].ok
           /\ history[j].call = history[i].call
           /\ C24_NoClearBetween(i, j))
          => /\ history[j].ok
             /\ history[j].value = history[i].value
             /\ history[j].reads_after = history[j].reads_before
    /\ \A i, j \in 1..Len(history) :
          (/\ i < j
           /\ history[i].call.op = "load_models_for_ticker"
           /\ history[i].ok
           /\ history[j].call = history[i].call
           /\ C24_NoClearBetween(i, j))
          => /\ history[j].ok
             /\ history[j].value.ml_model = history[i].value.ml_model
             /\ history[j].reads_after = history[j].reads_before
    /\ \A i \in 1..Len(history) :
          (history[i].call.op = "load_file" /\ ~history[i].ok)
          => history[i].cached_after = history[i].cached_before
    /\ \A i \in 1..Len(history) :
          history[i].call.op = "clear_cache" =>
             /\ history[i].cached_after = {}
             /\ (i < Len(history) /\ history[i + 1].call.op = "load_file")
                => history[i + 1].reads_after = history[i + 1].reads_before + 1
    /\ loader.kind = "loader" => CachedPaths(loader.cache)
           = IF history = <<>> THEN {} ELSE history[Len(history)].cached_after

\* The test's run: the SMH models loaded twice, the second time from the
\* cache, then the cache cleared.
C24_Witness ==
    /\ Len(history) = 3
    /\ history[1].call = [op |-> "load_models_for_ticker", ticker |-> "SMH"]
    /\ history[1].ok
    /\ history[2].call = history[1].call
    /\ history[2].value.ml_model = history[1].value.ml_model
    /\ history[2].reads_after = 4
    /\ history[3].call.op = "clear_cache"
    /\ history[3].cached_before # {}
    /\ loader.cache = <<>>

(***************************************************************************)
(* C25.  Select-by-delta looks among the chain's contracts of the type and *)
(* DTE asked for or, when there are none, among all its contracts of that  *)
(* type.  It returns the strike of the first of them, in the chain's       *)
(* order, at which | |delta| - |target| | is least; it raises the          *)
(* no-options error exactly when the chain holds no contract of the type.  *)
(***************************************************************************)
C25_Candidates ==
    LET exact == {i \in 1..Len(option_chain) :
                     /\ option_chain[i].type = call.option_type
                     /\ option_chain[i].dte = call.dte}
    IN  IF exact # {}
        THEN exact
        ELSE {i \in 1..Len(option_chain) : option_chain[i].type = call.option_type}

C25_Distance(i) == Abs(Abs(option_chain[i].delta) - Abs(call.target))

C25_SelectByDelta ==
    call.op = "_find_strike_by_delta" =>
        /\ result.kind = "error"
              <=> \A i \in 1..Len(option_chain) : option_chain[i].type # call.option_type
        /\ result.kind = "error"
              => result.value = NoOptionsAvailable(call.option_type)
        /\ result.kind # "error" =>
              \E i \in C25_Candidates :
                  /\ result.value = option_chain[i].strike
                  /\ \A j \in C25_Candidates :
                        /\ C25_Distance(i) <= C25_Distance(j)
                        /\ j < i => C25_Distance(j) > C25_Distance(i)

\* Two calls of the DTE asked for are quoted with the same delta; the one
\* listed first, which is not the lower strike, is returned.
C25_Witness ==
    /\ call.op = "_find_strike_by_delta"
    /\ call.option_type = "call" /\ call.target = 25 /\ call.dte = 21
    /\ Len(option_chain) = 3
    /\ option_chain[1].strike = 110 /\ option_chain[1].delta = 30
    /\ option_chain[2].strike = 105 /\ option_chain[2].delta = 30
    /\ result.kind = "strike"
    /\ result.value = 110

(***************************************************************************)
(* C26.  Round trip: whenever select-by-delta returns a strike K,          *)
(* select-by-price on the same chain, option type and DTE with target      *)
(* price K returns K.                                                      *)
(***************************************************************************)
C26_RoundTrip ==
    (call.op = "_find_strike_by_price" /\ call.requery) =>
        /\ result.kind = "strike"
        /\ result.value * call.target.den = call.target.num

\* The round trip where no contract has the DTE asked for, so that both
\* selectors fall back to the contracts of any DTE.
C26_Witness ==
    /\ call.op = "_find_strike_by_price"
    /\ call.requery
    /\ call.dte = 30
    /\ call.option_type = "put"
    /\ \E i \in 1..Len(option_chain) : option_chain[i].type = "put"
    /\ \A i \in 1..Len(option_chain) : option_chain[i].dte # 30
    /\ result.kind = "strike"
    /\ result.value = 95

(***************************************************************************)
(* C27.  On a chain with at least one expiration _select_optimal_dte       *)
(* returns a DTE of the chain such that no DTE of the chain is strictly    *)
(* closer to the target: 7 / 14 / 21 for iron condor and iron butterfly    *)
(* with iv_rank > 70 / > 50 / else; 45 for long call and long put with     *)
(* iv_rank < 30 and a VERY_STRONG trend, 30 with iv_rank < 40, else 21;    *)
(* 30 for the two vertical spreads when VERY_STRONG, else 21; 30 for every *)
(* other strategy.                                                         *)
(***************************************************************************)
C27_Target(strategy, iv_rank, trend_strength) ==
    CASE strategy \in {"IRON_CONDOR", "IRON_BUTTERFLY"} ->
            IF iv_rank > U(70) THEN 7 ELSE IF iv_rank > U(50) THEN 14 ELSE 21
      [] strategy \in {"LONG_CALL", "LONG_PUT"} ->
            IF iv_rank < U(30) /\ trend_strength = "VERY_STRONG" THEN 45
            ELSE IF iv_rank < U(40) THEN 30 ELSE 21
      [] strategy \in {"BULL_CALL_SPREAD", "BEAR_PUT_SPREAD"} ->
            IF trend_strength = "VERY_STRONG" THEN 30 ELSE 21
      [] OTHER -> 30

C27_NearestDte ==
    (call.op = "_select_optimal_dte" /\ Len(option_chain) > 0) =>
        LET target == C27_Target(call.strategy, call.iv_rank, call.trend_strength)
            dtes == {option_chain[i].dte : i \in 1..Len(option_chain)}
        IN  /\ result.kind = "dte"
            /\ result.value \in dtes
            /\ \A e \in dtes : Abs(e - target) >= Abs(result.value - target)

\* An iron condor at iv_rank exactly 70 (target 14, not 7) on a chain that
\* quotes 7, 21 and 45 days: 7 and 21 are equally near and one is returned.
C27_Witness ==
    /\ call.op = "_select_optimal_dte"
    /\ call.strategy = "IRON_CONDOR"
    /\ call.iv_rank = U(70)
    /\ {option_chain[i].dte : i \in 1..Len(option_chain)} = {7, 21, 45}
    /\ result.kind = "dte"
    /\ result.value \in {7, 21}

(***************************************************************************)
(* C28.  _classify_trend_strength returns VERY_STRONG iff adx > 30 and     *)
(* ((rsi > 65 and trend_regime >= 4) or (rsi < 35 and trend_regime <= 0)); *)
(* otherwise STRONG iff adx > 25 and ((rsi > 60 and trend_regime >= 3) or  *)
(* (rsi < 40 and trend_regime <= 1)); otherwise MODERATE iff adx > 20;     *)
(* otherwise WEAK.  So adx <= 20 gives WEAK and adx <= 30 never gives      *)
(* VERY_STRONG.                                                            *)
(***************************************************************************)
C28_TrendStrength ==
    (/\ call.op = "_classify_trend_strength"
     /\ {"adx_14", "rsi_14", "trend_regime"} \subseteq features.present) =>
        LET adx == features.val["adx_14"]
            rsi == features.val["rsi_14"]
            trend_regime == features.val["trend_regime"]
            very_strong ==
                adx > U(30) /\ ((rsi > U(65) /\ trend_regime >= 4)
                                 \/ (rsi < U(35) /\ trend_regime <= 0))
            strong ==
                adx > U(25) /\ ((rsi > U(60) /\ trend_regime >= 3)
                                 \/ (rsi < U(40) /\ trend_regime <= 1))
        IN  /\ result.value \in {"VERY_STRONG", "STRONG", "MODERATE", "WEAK"}
            /\ result.value = "VERY_STRONG" <=> very_strong
            /\ result.value = "STRONG" <=> (~very_strong /\ strong)
            /\ result.value = "MODERATE" <=> (~very_strong /\ ~strong /\ adx > U(20))
            /\ result.value = "WEAK" <=> (~very_strong /\ ~strong /\ adx <= U(20))
            /\ adx <= U(20) => result.value = "WEAK"
            /\ adx <= U(30) => result.value # "VERY_STRONG"

\* adx above 30 with an RSI above 65 but a regime of 2: neither directional
\* match holds and the answer is MODERATE.
C28_Witness ==
    /\ call.op = "_classify_trend_strength"
    /\ features.present = FeatureKeys
    /\ features.val["adx_14"] > U(30)
    /\ features.val["rsi_14"] > U(65)
    /\ features.val["trend_regime"] = 2
    /\ result.value = "MODERATE"

(***************************************************************************)
(* C29.  Sizing composed with the approval gate.  For a per-contract max   *)
(* loss m > 0 and n = calculate_position_size(m): the total n * m is       *)
(* within account_size * risk_per_trade, and passes the risk-percentage    *)
(* test of validate_trade, if and only if m is within it; when one         *)
(* contract already exceeds it, n = 1 and the sized trade is not approved. *)
(***************************************************************************)
C29_SizedTradeWithinBudget ==
    (call.op = "size_and_validate" /\ call.max_loss > 0) =>
        LET m == call.max_loss
            n == result.contracts
            within == 100 * m <= rm.account_size * rm.risk_per_trade
        IN  /\ result.total_max_loss = n * m
            /\ 100 * n * m <= rm.account_size * rm.risk_per_trade <=> within
            /\ RatioLe(result.value.risk_percentage, Ratio(rm.risk_per_trade, 100))
                   <=> within
            /\ ~within => (n = 1 /\ ~result.value.approved)

\* The floor binds: two contracts fit the budget, three would not, the
\* limit of contracts is higher, and the sized trade is approved.
C29_Witness ==
    /\ call.op = "size_and_validate"
    /\ call.max_loss > 0
    /\ result.contracts = 2
    /\ rm.max_contracts > 2
    /\ 100 * 2 * call.max_loss < rm.account_size * rm.risk_per_trade
    /\ 100 * 3 * call.max_loss > rm.account_size * rm.risk_per_trade
    /\ result.value.approved

(***************************************************************************)
(* C30.  The fallback cascade never emits IRON_BUTTERFLY, DIAGONAL_SPREAD, *)
(* LONG_STRADDLE, LONG_STRANGLE or CALENDAR_SPREAD: whenever the selector  *)
(* returns one of these five labels, the label's own direct rule holds for *)
(* the snapshot (an absent key read as its default) and none of the rules  *)
(* checked before it holds.                                                *)
(***************************************************************************)
C30_DirectOnly ==
    {"DIAGONAL_SPREAD", "IRON_BUTTERFLY", "LONG_STRADDLE", "LONG_STRANGLE",
     "CALENDAR_SPREAD"}

\* The place of a label's direct rule in the order of evaluation, the three
\* Long Put paths counted one by one.
C30_Position(label) ==
    CASE label = "DIAGONAL_SPREAD" -> 1
      [] label = "IRON_BUTTERFLY" -> 3
      [] label = "LONG_STRADDLE" -> 10
      [] label = "LONG_STRANGLE" -> 11
      [] label = "CALENDAR_SPREAD" -> 12

=============================================================================
